---- MODULE Spec2Model ----
(***************************************************************************)
(* Admission pipeline of the LLM firewall gateway: the three-tier          *)
(* fixed-window rate limiter over the shared Redis store, the chat         *)
(* completions handler with its analyzer call, and the audit entry built   *)
(* on response.  Request slots stand for requests in flight on any gateway *)
(* instance: the rate limiter keeps no state of its own, all counters live *)
(* in the shared store.  The analyzer client with its retries and          *)
(* reconnects, the audit queue with its drainer and the audit table, and   *)
(* the signal handler of the process complete the model, with the          *)
(* limiter's reset and getStatus calls.                                    *)
(***************************************************************************)
EXTENDS Integers, Sequences, FiniteSets, TLC

\* ---------------------------------------------------------------- bounds
MaxArrivals == 3       \* requests received in one behaviour of the rate limiter
MaxChats == 2          \* chat requests received in one behaviour of the pipeline
RateWindow == 2        \* seconds in a rate-limit window (all tiers)
MaxLate == 0           \* seconds the clock runs on after the second window has begun
MaxLimit == 2          \* largest configured tier maximum
MaxRetriesBound == 1   \* largest configured analyzer maxRetries
MaxIssues == 1         \* most issues in one verdict
maxContentLength == 2  \* security.maxContentLength, scaled down
MaxEnqueued == 1002    \* requests answered while the drainer is paused
MaxClientRetries == 3  \* largest maxRetries of the analyzer client on its own
batchSize == 2         \* entries _processQueue takes at once, scaled down
ShutdownTimeout == 1   \* shutdown.timeout in seconds, scaled down
RetentionSeconds == 1  \* retention of a row (90 days), scaled down
MaxLogged == 3         \* requests received in one behaviour of the audit store
uaKeep == 2            \* characters of the user-agent kept in metadata (100), scaled down
BodyBuffer == 2        \* bytes bodyLimit allows beyond maxContentLength (1024), scaled down

\* ------------------------------------------------------------- constants
Null == -1             \* JS null / undefined in a numeric position
NoExpiry == -1         \* TTL reply of a key without expiry
NaN == -2              \* the result of arithmetic on undefined
maxQueueSize == 1000
minContentLength == 1
ValidationErrorStatus == 400
ServiceUnavailableErrorStatus == 503
DefaultErrorStatus == 500   \* error handler: an error without statusCode

NoApiKey == ""         \* extractApiKey found no key
NoReason == "null"     \* block_reason: null

Slots == {1, 2}
IPs == {"ipA", "ipB"}
ApiKeys == {"k1"}
LongKey == "k1:x"      \* a key header that continues another key after a colon
Tiers == {"global", "ip", "apikey"}
ErrorCodes == {"UNAVAILABLE", "DEADLINE_EXCEEDED", "INVALID_ARGUMENT", "INTERNAL"}
Confidences == {0, 100}       \* confidence_score in percent
ChatUrl == "/v1/chat/completions"
ModelsUrl == "/v1/models"
HealthUrl == "/health"
AdminUrl == "/admin/audit-logs"
UnknownUrl == "/v1/embeddings"   \* no such route
ReadyUrl == "/ready"
HealthProbeUrl == "/health?probe=1"   \* request.url is the raw URL, query string included
ReadyProbeUrl == "/ready?probe=1"
NoUserAgent == <<>>    \* request.headers['user-agent'] || ''
EmptyHeader == 0       \* a header sent with the empty string as its value
UserAgents == {NoUserAgent, <<"a", "b", "c">>}   \* header values, as characters

VARIABLES
    now,        \* wall clock, seconds
    redis,      \* shared store: bucket key -> [n, exp]; n = 0: no such key
    config,     \* gatewayConfig, fixed at start-up
    env,        \* what clients, stores and analyzer may do in this run
    req,        \* request slot -> request context and handler locals
    nextId,     \* request-id generator
    queue,      \* AuditLogger.queue
    admitted,   \* history: bucket key -> checks the tier allowed
    client,     \* analyzerClient: the client object held, the clients closed
    pg,         \* pgClient: the pool and the rows of audit_logs
    drain,      \* AuditLogger.processing and the batch being inserted
    proc,       \* the process: listening, the signal handler, the exit code
    ops         \* the last reset or getStatus call on the limiter and what it returned

vars == <<now, redis, config, env, req, nextId, queue, admitted, client, pg, drain, proc, ops>>

\* ------------------------------------------------------------------ store
LastSecond == RateWindow + MaxLate

WindowStarts == {w \in 0..LastSecond : w % RateWindow = 0}

\* the keys a check can write: global for all, per caller IP, per API key
BucketKeys ==
    {<<"global", "all", w>> : w \in WindowStarts}
        \cup {<<"ip", i, w>> : i \in IPs, w \in WindowStarts}
        \cup {<<"apikey", k, w>> : k \in ApiKeys \cup {LongKey}, w \in WindowStarts}

Absent == [n |-> 0, exp |-> NoExpiry]

\* rate_limit:{type}:{identifier}:{windowStart}
BucketKey(type, identifier, windowStart) == <<type, identifier, windowStart>>

WindowStart(t, window) == t - (t % window)

\* variant: the counter stops at the largest maximum
IncrUpToLimit(entry) == IF entry.n >= MaxLimit THEN entry ELSE [entry EXCEPT !.n = entry.n + 1]

\* INCR: a missing key counts from 0 and is created without expiry
Incr(entry) == [entry EXCEPT !.n = entry.n + 1]

\* TTL: -1 when the key has no expiry, else the seconds left
Ttl(entry, t) == IF entry.exp = NoExpiry THEN -1 ELSE entry.exp - t

\* EXPIRE: no effect on a missing key
Expire(entry, t, seconds) ==
    IF entry.n = 0 THEN entry ELSE [entry EXCEPT !.exp = t + seconds]

\* an identifier as the parts of its text between colons
Segments(identifier) == IF identifier = LongKey THEN <<"k1", "x">> ELSE <<identifier>>

\* KEYS rate_limit:{type}:{identifier}:* finds the key k: the pattern up to
\* its last colon is the beginning of the key's text, at a colon of the key
Matches(type, identifier, k) ==
    LET p == <<type>> \o Segments(identifier)
        s == <<k[1]>> \o Segments(k[2])
    IN  Len(p) <= Len(s) /\ SubSeq(s, 1, Len(p)) = p

\* DEL of the keys found
Del(store, keys) == [k \in DOMAIN store |-> IF k \in keys THEN Absent ELSE store[k]]

\* keys whose expiry has passed are gone
Evict(store, t) ==
    [k \in DOMAIN store |->
        IF store[k].exp # NoExpiry /\ store[k].exp <= t THEN Absent ELSE store[k]]

\* ---------------------------------------------------------- configuration
\* RateLimiter.limits: tier -> { max, window }
Limits(g, i, k) ==
    [global |-> [max |-> g, window |-> RateWindow],
     ip     |-> [max |-> i, window |-> RateWindow],
     apikey |-> [max |-> k, window |-> RateWindow]]

\* ------------------------------------------------------- request context
NoCheck ==
    [allowed |-> TRUE, limit |-> Null, remaining |-> Null, reset |-> Null,
     retryAfter |-> Null, type |-> "none"]

NoHeaders == [limit |-> Null, remaining |-> Null, reset |-> Null, retryAfter |-> Null]

\* request.auditContext is undefined until the audit onRequest hook runs
NoAuditContext ==
    [defined |-> FALSE, is_blocked |-> FALSE, block_reason |-> NoReason,
     detected_issues_count |-> Null, security_confidence |-> Null]

NoVerdict ==
    [present |-> FALSE, is_safe |-> FALSE, detected_issues |-> 0, confidence_score |-> Null]

Verdicts ==
    {[present |-> TRUE, is_safe |-> s, detected_issues |-> n, confidence_score |-> c] :
        s \in BOOLEAN, n \in 0..MaxIssues, c \in Confidences}

\* the headers a reply went out with: X-Request-Id and X-Response-Time
NothingSent == [requestId |-> Null, responseTime |-> Null]

IdleReq ==
    [pc |-> "idle", id |-> 0, url |-> "", ip |-> "", apiKey |-> NoApiKey, ua |-> NoUserAgent,
     idIn |-> Null, replyId |-> Null, replyTime |-> Null, sent |-> NothingSent,
     startTime |-> Null,
     tier |-> "none", bnow |-> 0, cnt |-> 0,
     globalCheck |-> NoCheck, ipCheck |-> NoCheck, rateLimit |-> NoCheck,
     hdr |-> NoHeaders, status |-> 0, auditContext |-> NoAuditContext,
     attempt |-> 0, lastError |-> "none", verdict |-> NoVerdict,
     stages |-> {}, storeErr |-> FALSE, allUnavailable |-> FALSE,
     sentOn |-> 0, delay |-> 0, slept |-> 0, thrown |-> "none"]

\* a body without messages
NoMessages == [messages |-> Null, len |-> 0, bytes |-> 1]

\* request bodies: messages missing, an empty array, or one message whose
\* content has len characters; bytes is the size of the body on the wire,
\* here one byte a character and one for the JSON around the content
Bodies ==
    {NoMessages, [messages |-> 0, len |-> 0, bytes |-> 1]}
        \cup {[messages |-> 1, len |-> l, bytes |-> l + 1] : l \in 0..(maxContentLength + 1)}

\* Fastify bodyLimit
bodyLimit == maxContentLength + BodyBuffer

\* bodies of any size, of one-byte or of three-byte characters
ChatBodies ==
    Bodies \cup {[messages |-> 1, len |-> l, bytes |-> w * l + 1] :
                    l \in 0..(bodyLimit + 1), w \in {1, 3}}

\* JS truthiness of a number-or-null
Truthy(v) == v # Null /\ v # 0

\* a || b on a number-or-null
OrElse(v, d) == IF Truthy(v) THEN v ELSE d

\* ----------------------------------------------------------- chat handler
\* audit-log plugin, onRequest hook
BlankAuditContext ==
    [defined |-> TRUE, is_blocked |-> FALSE, block_reason |-> NoReason,
     detected_issues_count |-> 0, security_confidence |-> Null]

\* request-id plugin, onRequest hook: the inbound header unless it is
\* missing or empty, else a generated id; the id is put on the reply
RequestIdHook(q, inbound, generated) ==
    LET requestId == IF Truthy(inbound) THEN inbound ELSE generated
    IN  [q EXCEPT !.idIn = inbound, !.id = requestId, !.replyId = requestId]

\* request timing hook, onRequest, the last hook of the chain
StartTimeHook(q) == [q EXCEPT !.startTime = now]

\* response timing hook, onResponse: it runs when the reply has been sent
ResponseTimeHook(q, t) == [q EXCEPT !.replyTime = t]

\* the reply is sent with the headers set so far; the locals of
\* checkContent are gone
Respond(q, status) ==
    [q EXCEPT !.status = status, !.pc = "responded", !.attempt = 0, !.lastError = "none",
              !.sentOn = 0, !.delay = 0,
              !.sent = [requestId |-> q.replyId, responseTime |-> q.replyTime]]

BodyRejected(b) ==
    \/ b.messages = Null
    \/ b.messages = 0
    \/ b.len < minContentLength
    \/ b.len > maxContentLength

\* chat handler up to the await of analyzerClient.checkContent
Validate(q, b) ==
    LET q1 == [q EXCEPT !.stages = @ \cup {"validate"}]
    IN  IF BodyRejected(b)
        THEN Respond(q1, ValidationErrorStatus)
        ELSE [q1 EXCEPT !.pc = "attempt", !.attempt = 0, !.allUnavailable = TRUE,
                        !.stages = @ \cup {"analyze"}, !.sentOn = client.inst]

\* the path the router matches: the URL without its query string
PathOf(url) ==
    IF url = HealthProbeUrl THEN HealthUrl
    ELSE IF url = ReadyProbeUrl THEN ReadyUrl
    ELSE url

\* the body parser answers 413 when the body is longer than bodyLimit
BodyTooLarge(b) == b.bytes > bodyLimit

\* the route of the request: its handler, or the not-found handler
Route(q, b) ==
    IF PathOf(q.url) = ChatUrl
    THEN IF BodyTooLarge(b) THEN Respond(q, 413) ELSE Validate(q, b)
    ELSE IF PathOf(q.url) \in {ModelsUrl, HealthUrl, ReadyUrl} THEN Respond(q, 200)
    ELSE IF PathOf(q.url) = AdminUrl THEN Respond(q, IF env.dbUp THEN 200 ELSE 500)
    ELSE Respond(q, 404)

\* the onRequest hooks registered after the rate limiter, then the route
EnterHandler(q, b) ==
    LET q1 == IF config.auditLogging THEN [q EXCEPT !.auditContext = BlankAuditContext] ELSE q
    IN  Route(StartTimeHook(q1), b)

\* requests the rate-limit hook lets through unchecked
RateLimitSkipped(url) == url \in {HealthUrl, ReadyUrl}

\* ----------------------------------------------------------- rate limiter
\* variant: the comparison is off by one
BucketAllowedOffByOne(currentCount, max) == currentCount <= max + 1

BucketAllowed(currentCount, max) == currentCount <= max

\* variant: the difference is not clamped at 0
RemainingUnclamped(currentCount, max) == max - currentCount

Remaining(currentCount, max) == IF max - currentCount > 0 THEN max - currentCount ELSE 0

\* variant: a denial always asks for a whole window
RetryAfterWindow(allowed, reset, t, window) == IF allowed THEN Null ELSE window

\* allowed ? null : (reset - now)
RetryAfter(allowed, reset, t, window) == IF allowed THEN Null ELSE reset - t

\* _checkBucket after the store calls; t is the clock read on entry
CheckResult(type, currentCount, limit, t) ==
    LET windowStart == WindowStart(t, limit.window)
        allowed == BucketAllowed(currentCount, limit.max)
        reset == windowStart + limit.window
    IN  [allowed |-> allowed, limit |-> limit.max,
         remaining |-> Remaining(currentCount, limit.max),
         reset |-> reset,
         retryAfter |-> RetryAfter(allowed, reset, t, limit.window),
         type |-> type]

\* variant: the catch denies (fail closed)
FailClosedResult ==
    [allowed |-> FALSE, limit |-> Null, remaining |-> Null, reset |-> Null,
     retryAfter |-> Null, type |-> "none"]

\* checkLimit catch: fail open
FailOpenResult ==
    [allowed |-> TRUE, limit |-> Null, remaining |-> Null, reset |-> Null,
     retryAfter |-> Null, type |-> "none"]

AddRateLimitHeaders(h, rateLimit) ==
    [h EXCEPT !.limit = rateLimit.limit,
              !.remaining = rateLimit.remaining,
              !.reset = rateLimit.reset]

\* variant: the hook sets the headers and lets the request through
HookNeverDenies(rateLimit) == FALSE

\* the hook answers 429 itself when the limiter denied
HookDenies(rateLimit) == ~rateLimit.allowed

\* rate-limit onRequest hook after checkLimit has returned
AfterCheckLimit(q, rateLimit, b) ==
    LET q1 == [q EXCEPT !.rateLimit = rateLimit,
                        !.hdr = AddRateLimitHeaders(@, rateLimit),
                        !.stages = @ \cup {"ratelimit"},
                        !.tier = "none", !.bnow = 0, !.cnt = 0]
    IN  IF HookDenies(rateLimit)
        THEN Respond([q1 EXCEPT !.hdr.retryAfter =
                          IF Truthy(rateLimit.retryAfter) THEN rateLimit.retryAfter ELSE Null],
                     429)
        ELSE EnterHandler(q1, b)

\* checkLimit catch, reached from a store call that threw
FailOpen(q, b) == AfterCheckLimit([q EXCEPT !.storeErr = TRUE], FailOpenResult, b)

\* variant: every tier is checked, whatever the earlier ones said
TierNeverReturns(res) == FALSE

\* a tier that denies ends checkLimit
TierReturns(res) == ~res.allowed

\* checkLimit after the _checkBucket of tier q.tier returned res at time t
AfterBucket(q, res, t, b) ==
    IF TierReturns(res) THEN AfterCheckLimit(q, res, b)
    ELSE IF q.tier = "global"
        THEN [q EXCEPT !.globalCheck = res, !.tier = "ip", !.bnow = t, !.pc = "pipeline"]
    ELSE IF q.tier = "ip"
        THEN IF q.apiKey # NoApiKey
             THEN [q EXCEPT !.ipCheck = res, !.tier = "apikey", !.bnow = t, !.pc = "pipeline"]
             ELSE AfterCheckLimit([q EXCEPT !.ipCheck = res], res, b)
    ELSE AfterCheckLimit(q, res, b)

Identifier(q) ==
    IF q.tier = "global" THEN "all" ELSE IF q.tier = "ip" THEN q.ip ELSE q.apiKey

KeyOf(q) == BucketKey(q.tier, Identifier(q), WindowStart(q.bnow, config.limits[q.tier].window))

\* -------------------------------------------------------- analyzer client
\* variant: the handler does not look at is_safe
UnsafeIgnored(v) == FALSE

\* the unsafe-verdict test of the handler
Unsafe(v) == ~v.is_safe

\* variant: the catch rethrows and the error handler picks the status
AnalyzerErrorUnmapped == DefaultErrorStatus

\* status of the reply when checkContent or the handler's try block throws
AnalyzerErrorStatus == ServiceUnavailableErrorStatus

\* handler after checkContent resolved with the verdict v
HandleVerdict(q, v) ==
    LET q1 == [q EXCEPT !.verdict = v, !.allUnavailable = FALSE]
    IN  IF ~v.present
        THEN Respond(q1, AnalyzerErrorStatus)      \* TypeError, caught
        ELSE IF Unsafe(v)
        THEN IF ~config.auditLogging
             THEN Respond(q1, AnalyzerErrorStatus) \* setAuditContext is not a function
             ELSE Respond([q1 EXCEPT !.auditContext =
                              [@ EXCEPT !.is_blocked = TRUE,
                                        !.block_reason = "CONTENT_POLICY_VIOLATION",
                                        !.detected_issues_count = v.detected_issues,
                                        !.security_confidence = v.confidence_score]],
                          403)
        ELSE Respond([q1 EXCEPT !.stages = @ \cup {"forward"}], 501)

\* variant: every error is retried
NothingNotRetried(code) == FALSE

\* errors that checkContent rethrows at once
NotRetried(code) == code = "INVALID_ARGUMENT"

\* variant: the delay does not grow
BackoffFixed(attempt) == 1000

\* milliseconds slept after the failure of attempt (0-based)
Backoff(attempt) == (2 ^ attempt) * 1000

\* variant: the client is replaced after every error
ReconnectsOnAnyError(code) == TRUE

\* errors after which the client is replaced
Reconnects(code) == code \in {"UNAVAILABLE", "DEADLINE_EXCEEDED"}

\* the client as the constructor leaves it: connect() made the first one
FirstClient == [inst |-> 1, closed |-> {}]

\* client objects something still refers to: this.client and the clients
\* the calls in flight were issued on
Referenced(c) == {c.inst} \cup {req[s].sentOn : s \in {t \in DOMAIN req : req[t].sentOn # 0}}

\* identity of a new object: the least one nothing refers to
NewClient(c) ==
    CHOOSE i \in 1..(Cardinality(Referenced(c)) + 1) :
        /\ i \notin Referenced(c)
        /\ \A j \in 1..(i - 1) : j \in Referenced(c)

\* this.client = null; this.connect(): the reference is dropped and a new
\* client is made; closeClient is not called on the old one
Reconnect(c) == [inst |-> NewClient(c), closed |-> c.closed \ {NewClient(c)}]

\* checkContent rejects with error; the handler's catch answers
Throw(q, error) == Respond([q EXCEPT !.thrown = error], AnalyzerErrorStatus)

\* checkContent loop body after attempt q.attempt failed with code
AfterFailure(q, code) ==
    LET q1 == [q EXCEPT !.lastError = code,
                        !.allUnavailable = @ /\ code = "UNAVAILABLE"]
    IN  IF NotRetried(code) THEN Throw(q1, code)
        ELSE IF q.attempt < config.maxRetries
        THEN [q1 EXCEPT !.pc = "sleep", !.delay = Backoff(q.attempt)]
        ELSE Throw(q1, code)

\* ------------------------------------------------------------ audit logger
\* variant: the onResponse hook logs every request
AuditSkipsNothing(url) == FALSE

\* requests the onResponse hook does not log
AuditSkipped(url) == url = HealthUrl

\* what _hash returns for a falsy value: null
NullDigest == [null |-> TRUE]

\* _hash: null for a falsy value (blank: null, undefined or the empty
\* string of the position), else the SHA-256 digest, here the value under a
\* tag, so that equal digests mean equal values
Hash(data, blank) == IF data = blank THEN NullDigest ELSE [null |-> FALSE, sha256 |-> data]

\* s.substring(0, n)
Substring(s, n) == SubSeq(s, 1, IF Len(s) < n THEN Len(s) ELSE n)

\* AuditLogger.log: the entry built from the request, the reply and the patch
LogEntry(q) ==
    LET options == q.auditContext
    IN  [request_id |-> q.id,
         path |-> q.url,
         client_ip_hash |-> Hash(q.ip, ""),
         user_agent_hash |-> Hash(q.ua, NoUserAgent),
         api_key_hash |-> Hash(q.apiKey, NoApiKey),
         metadata |-> [user_agent_truncated |-> Substring(q.ua, uaKeep),
                       request_path |-> q.url],
         response_status |-> q.status,
         response_time_ms |-> IF q.startTime = Null THEN NaN ELSE now - q.startTime,
         is_blocked |-> options.is_blocked,
         block_reason |-> options.block_reason,
         detected_issues_count |-> OrElse(options.detected_issues_count, 0),
         security_confidence |-> OrElse(options.security_confidence, Null)]

\* variant: the capacity test is off by one
QueueLogOffByOne(qu, logEntry) ==
    IF Len(qu) > maxQueueSize THEN qu ELSE Append(qu, logEntry)

\* AuditLogger._queueLog
QueueLog(qu, logEntry) ==
    IF Len(qu) >= maxQueueSize THEN qu ELSE Append(qu, logEntry)

\* the first batchSize entries of the queue
Batch(qu) == SubSeq(qu, 1, IF Len(qu) < batchSize THEN Len(qu) ELSE batchSize)

\* variant: slice instead of splice, the queue keeps the batch
AfterSlice(qu) == qu

\* queue.splice(0, batchSize): what stays in the queue
AfterSplice(qu) == SubSeq(qu, Len(Batch(qu)) + 1, Len(qu))

NoBatch == [processing |-> FALSE, batch |-> <<>>, by |-> "none"]

\* variant: the catch of an insert puts the entry back into the queue
RequeueRejected(qu, logEntry) == Append(qu, logEntry)

\* the catch of one insert of the batch: the queue is not touched
AfterReject(qu, logEntry) == qu

\* variant: log queues the entry in either mode
QueuedAlways(cfg) == TRUE

\* log: the entry goes to the queue in asynchronous mode, to the store
\* otherwise
Queued(cfg) == cfg.auditAsync

\* the constructor starts the drainer
DrainerStarted(cfg) == cfg.auditLogging /\ cfg.auditAsync

\* -------------------------------------------------------------- audit store
\* INSERT INTO audit_logs: retention_until defaults to NOW() + the retention
Row(logEntry, t) == [entry |-> logEntry, retention_until |-> t + RetentionSeconds]

\* insertAuditLog throws: the caller's catch logs the error and the entry
\* is gone; failed records the request ids so logged
InsertThrows(db, logEntry) == [db EXCEPT !.failed = @ \cup {logEntry.request_id}]

\* pgClient.insertAuditLog: the row is added, or the insert throws and the
\* caller's catch drops the entry
InsertAuditLog(db, logEntry, t) ==
    IF db.open /\ env.dbUp
    THEN [db EXCEPT !.rows = Append(@, Row(logEntry, t)), !.last = "insert"]
    ELSE InsertThrows(db, logEntry)

\* WHERE client_ip_hash = $n
OfClient(row, clientIpHash) == row.entry.client_ip_hash = clientIpHash

\* pgClient.queryAuditLogs({ client_ip_hash })
QueryAuditLogs(db, clientIpHash) == SelectSeq(db.rows, LAMBDA row : OfClient(row, clientIpHash))

\* request ids of the entries of a sequence that carry the caller's digest
IdsOf(entries, clientIpHash) ==
    {entries[i].request_id : i \in {j \in 1..Len(entries) : entries[j].client_ip_hash = clientIpHash}}

\* delete_audit_logs_by_client: the rows of the caller are deleted; accepted
\* records which entries the pipeline had taken for that caller by then
DeleteClientAuditLogs(db, clientIpHash, accepted) ==
    LET kept == SelectSeq(db.rows, LAMBDA row : ~OfClient(row, clientIpHash))
    IN  [db EXCEPT !.rows = kept, !.result = Len(db.rows) - Len(kept), !.last = "erase",
                   !.erased = @ \cup accepted]

\* variant: rows that expire this very second are deleted too
ExpiredOrDue(row, t) == row.retention_until <= t

\* WHERE retention_until < NOW()
Expired(row, t) == row.retention_until < t

\* cleanup_expired_audit_logs at time t
CleanupExpiredLogs(db, t) ==
    LET kept == SelectSeq(db.rows, LAMBDA row : ~Expired(row, t))
    IN  [db EXCEPT !.rows = kept, !.result = Len(db.rows) - Len(kept),
                   !.last = IF db.last \in {"sweep", "sweep again"}
                            THEN "sweep again" ELSE "sweep"]

\* pgClient.queryAuditLogs and getAuditStats: the rows are read
ReadAuditLogs(db, op) == [db EXCEPT !.result = Len(db.rows), !.last = op]

\* the pool connected, the table empty; byOperator records whether the
\* last admin request came with operator credentials
EmptyStore ==
    [open |-> TRUE, rows |-> <<>>, result |-> Null, last |-> "none", erased |-> {},
     byOperator |-> TRUE, failed |-> {}]

\* ----------------------------------------------------------------- process
Running ==
    [pc |-> "running", listening |-> TRUE, deadline |-> Null, exit |-> Null,
     cause |-> "none", steps |-> <<>>]

Alive == proc.exit = Null

\* process.exit(code)
Exit(p, code, cause) == [p EXCEPT !.pc = "exited", !.exit = code, !.cause = cause]

\* server.close() is called: the server stops accepting
ServerClose(p) == [p EXCEPT !.pc = "close", !.listening = FALSE, !.steps = Append(@, "close")]

\* variant: the ceiling timer is never due
TimerNeverDue(p, t) == FALSE

\* the setTimeout of the signal handler is due
TimerDue(p, t) == p.deadline # Null /\ t >= p.deadline

\* ---------------------------------------------------------------- actions
InFlight == {s \in Slots : req[s].pc # "idle"}

\* a request is received: request-id hook, then the rate-limit hook up to
\* the first store call (or, with rate limiting off, on to the handler)
Arrive(r) ==
    /\ req[r].pc = "idle"
    /\ \A s \in Slots : s < r => req[s].pc # "idle"
    /\ Cardinality(InFlight) < env.concurrent
    /\ nextId <= env.arrivals
    /\ \E url \in env.urls, idHeader \in env.idHeaders, ip \in env.ips,
          key \in env.keys, ua \in env.uas, b \in env.bodies :
        LET q == RequestIdHook([IdleReq EXCEPT !.url = url, !.ip = ip, !.apiKey = key,
                                               !.ua = ua],
                               idHeader, nextId)
        IN  req' = [req EXCEPT ![r] =
                IF config.rateLimiting /\ ~RateLimitSkipped(url)
                THEN [q EXCEPT !.tier = "global", !.bnow = now, !.pc = "pipeline"]
                ELSE EnterHandler(q, b)]
    /\ nextId' = nextId + 1
    /\ UNCHANGED <<now, redis, config, env, ops, queue, admitted, client, pg, drain, proc>>

\* redisClient.pipeline throws before INCR is executed
PipelineFails(r) ==
    /\ req[r].pc = "pipeline"
    /\ \E b \in env.bodies :
        req' = [req EXCEPT ![r] = FailOpen(req[r], b)]
    /\ UNCHANGED <<now, redis, config, env, ops, nextId, queue, admitted, client, pg, drain, proc>>

\* INCR is executed, the TTL reply is an error
PipelineTtlFails(r) ==
    /\ req[r].pc = "pipeline"
    /\ redis' = [redis EXCEPT ![KeyOf(req[r])] = Incr(@)]
    /\ \E b \in env.bodies :
        req' = [req EXCEPT ![r] = FailOpen(req[r], b)]
    /\ UNCHANGED <<now, config, env, ops, nextId, queue, admitted, client, pg, drain, proc>>

\* variant: a denial by the per-caller or per-key tier takes the request's
\* increment of the global bucket back
PipelineRollsBack(r) ==
    /\ req[r].pc = "pipeline"
    /\ LET q == req[r]
           key == KeyOf(q)
           entry == Incr(redis[key])
           ttl == Ttl(entry, now)
           res == CheckResult(q.tier, entry.n, config.limits[q.tier], q.bnow)
           all == BucketKey("global", "all", WindowStart(q.bnow, config.limits.global.window))
       IN  /\ redis' = IF ttl # -1 /\ ~res.allowed /\ q.tier # "global" /\ redis[all].n > 0
                       THEN [redis EXCEPT ![key] = entry, ![all].n = @ - 1]
                       ELSE [redis EXCEPT ![key] = entry]
           /\ IF ttl = -1
              THEN /\ req' = [req EXCEPT ![r] = [q EXCEPT !.cnt = entry.n, !.pc = "expire"]]
                   /\ UNCHANGED admitted
              ELSE /\ \E b \in env.bodies :
                        req' = [req EXCEPT ![r] = AfterBucket([q EXCEPT !.cnt = entry.n], res, now, b)]
                   /\ admitted' = [admitted EXCEPT ![key] = IF res.allowed THEN @ + 1 ELSE @]
    /\ UNCHANGED <<now, config, env, ops, nextId, queue, client, pg, drain, proc>>

\* INCR and TTL in one round trip, then _checkBucket up to the next await
Pipeline(r) ==
    /\ req[r].pc = "pipeline"
    /\ LET q == req[r]
           key == KeyOf(q)
           entry == Incr(redis[key])
           ttl == Ttl(entry, now)
           res == CheckResult(q.tier, entry.n, config.limits[q.tier], q.bnow)
       IN  /\ redis' = [redis EXCEPT ![key] = entry]
           /\ IF ttl = -1
              THEN /\ req' = [req EXCEPT ![r] = [q EXCEPT !.cnt = entry.n, !.pc = "expire"]]
                   /\ UNCHANGED admitted
              ELSE /\ \E b \in env.bodies :
                        req' = [req EXCEPT ![r] = AfterBucket([q EXCEPT !.cnt = entry.n], res, now, b)]
                   /\ admitted' = [admitted EXCEPT ![key] = IF res.allowed THEN @ + 1 ELSE @]
    /\ UNCHANGED <<now, config, env, ops, nextId, queue, client, pg, drain, proc>>

\* redisClient.expire throws
ExpireFails(r) ==
    /\ req[r].pc = "expire"
    /\ \E b \in env.bodies :
        req' = [req EXCEPT ![r] = FailOpen(req[r], b)]
    /\ UNCHANGED <<now, redis, config, env, ops, nextId, queue, admitted, client, pg, drain, proc>>

\* EXPIRE key window, then _checkBucket returns
ExpireKey(r) ==
    /\ req[r].pc = "expire"
    /\ LET q == req[r]
           key == KeyOf(q)
           res == CheckResult(q.tier, q.cnt, config.limits[q.tier], q.bnow)
       IN  /\ redis' = [redis EXCEPT ![key] = Expire(@, now, config.limits[q.tier].window)]
           /\ \E b \in env.bodies :
                req' = [req EXCEPT ![r] = AfterBucket(q, res, now, b)]
           /\ admitted' = [admitted EXCEPT ![key] = IF res.allowed THEN @ + 1 ELSE @]
    /\ UNCHANGED <<now, config, env, ops, nextId, queue, client, pg, drain, proc>>

\* one attempt of checkContent resolves with a verdict
AttemptOk(r) ==
    /\ req[r].pc = "attempt"
    /\ \E v \in env.verdicts :
        req' = [req EXCEPT ![r] = HandleVerdict(req[r], v)]
    /\ UNCHANGED <<now, redis, config, env, ops, nextId, queue, admitted, client, pg, drain, proc>>

\* one attempt of checkContent rejects with a gRPC status
AttemptFails(r) ==
    /\ req[r].pc = "attempt"
    /\ \E code \in env.errors :
        req' = [req EXCEPT ![r] = AfterFailure(req[r], code)]
    /\ UNCHANGED <<now, redis, config, env, ops, nextId, queue, admitted, client, pg, drain, proc>>

\* the backoff sleep ends: the client is replaced after a transport error,
\* and the loop issues the next attempt on this.client
Wake(r) ==
    /\ req[r].pc = "sleep"
    /\ client' = IF Reconnects(req[r].lastError) THEN Reconnect(client) ELSE client
    /\ req' = [req EXCEPT ![r] = [@ EXCEPT !.attempt = @ + 1, !.pc = "attempt",
                                           !.slept = @ + req[r].delay, !.delay = 0,
                                           !.sentOn = client'.inst]]
    /\ UNCHANGED <<now, redis, config, env, ops, nextId, queue, admitted, pg, drain, proc>>

\* the request context is released
EndOfRequest(q) == IdleReq

\* onResponse hooks: the audit-log plugin, then the response timing hook;
\* the request context ends here
OnResponse(r) ==
    /\ req[r].pc = "responded"
    /\ IF config.auditLogging /\ ~AuditSkipped(req[r].url)
       THEN IF Queued(config)
            THEN /\ queue' = QueueLog(queue, LogEntry(req[r]))
                 /\ UNCHANGED pg
            ELSE /\ pg' = InsertAuditLog(pg, LogEntry(req[r]), now)
                 /\ UNCHANGED queue
       ELSE UNCHANGED <<queue, pg>>
    /\ req' = [req EXCEPT ![r] = EndOfRequest(ResponseTimeHook(req[r], now))]
    /\ UNCHANGED <<now, redis, config, env, ops, nextId, admitted, client, drain, proc>>

\* variant: _processQueue does not test its processing flag
ProcessQueueUnguarded(by) ==
    /\ Len(queue) > 0
    /\ drain' = [processing |-> TRUE, batch |-> Batch(queue), by |-> by]
    /\ queue' = AfterSplice(queue)

\* _processQueue up to its await: a batch is taken off the queue
ProcessQueue(by) ==
    /\ ~drain.processing
    /\ Len(queue) > 0
    /\ drain' = [processing |-> TRUE, batch |-> Batch(queue), by |-> by]
    /\ queue' = AfterSplice(queue)

\* the setInterval callback of startProcessing
Drain ==
    /\ Alive
    /\ DrainerStarted(config)
    /\ ProcessQueue("timer")
    /\ UNCHANGED <<now, redis, config, env, ops, req, nextId, admitted, client, pg, proc>>

\* one insert of the batch settles; after the last one _processQueue
\* returns, and a flush that awaited it goes to its 100 ms sleep
Insert ==
    /\ Alive
    /\ drain.processing
    /\ pg' = InsertAuditLog(pg, Head(drain.batch), now)
    /\ IF Len(drain.batch) > 1
       THEN /\ drain' = [drain EXCEPT !.batch = Tail(@)]
            /\ UNCHANGED proc
       ELSE /\ drain' = NoBatch
            /\ proc' = IF drain.by = "flush" THEN [proc EXCEPT !.pc = "flushSleep"] ELSE proc
    /\ UNCHANGED <<now, redis, config, env, ops, req, nextId, queue, admitted, client>>

\* one insert of the batch rejects (this row only: a constraint, a
\* timeout): its catch logs the error, the other inserts go on
InsertFails ==
    /\ Alive
    /\ drain.processing
    /\ pg' = InsertThrows(pg, Head(drain.batch))
    /\ queue' = AfterReject(queue, Head(drain.batch))
    /\ IF Len(drain.batch) > 1
       THEN /\ drain' = [drain EXCEPT !.batch = Tail(@)]
            /\ UNCHANGED proc
       ELSE /\ drain' = NoBatch
            /\ proc' = IF drain.by = "flush" THEN [proc EXCEPT !.pc = "flushSleep"] ELSE proc
    /\ UNCHANGED <<now, redis, config, env, ops, req, nextId, admitted, client>>

\* AuditLogger.flush from its loop test to its next await: in synchronous
\* mode or with the queue empty flush returns and the handler calls server.close(); else it calls
\* _processQueue, which takes a batch or, when a batch is being inserted,
\* returns at once, and flush sleeps 100 ms
FlushTest(p) ==
    IF ~config.auditAsync \/ Len(queue) = 0
    THEN /\ proc' = ServerClose(p)
         /\ UNCHANGED <<queue, drain>>
    ELSE IF ~drain.processing
    THEN /\ proc' = [p EXCEPT !.pc = "flushBatch"]
         /\ ProcessQueue("flush")
    ELSE /\ proc' = [p EXCEPT !.pc = "flushSleep"]
         /\ UNCHANGED <<queue, drain>>

\* SIGINT or SIGTERM: the ceiling timer is set, then the first step begins
Signal ==
    /\ Alive
    /\ proc.pc = "running"
    /\ now + ShutdownTimeout <= env.horizon
    /\ LET p == [proc EXCEPT !.deadline = now + ShutdownTimeout]
       IN  IF config.auditLogging
           THEN FlushTest([p EXCEPT !.steps = Append(@, "flush")])
           ELSE /\ proc' = ServerClose(p)
                /\ UNCHANGED <<queue, drain>>
    /\ UNCHANGED <<now, redis, config, env, ops, req, nextId, admitted, client, pg>>

\* the 100 ms sleep of flush ends
FlushWake ==
    /\ Alive
    /\ proc.pc = "flushSleep"
    /\ FlushTest(proc)
    /\ UNCHANGED <<now, redis, config, env, ops, req, nextId, admitted, client, pg>>

\* server.close() resolves, the requests in flight being answered; then
\* pgClient.close() is called or, with audit logging off, the process exits
CloseDone ==
    /\ Alive
    /\ proc.pc = "close"
    /\ InFlight = {}
    /\ proc' = IF config.auditLogging
               THEN [proc EXCEPT !.pc = "pgclose", !.steps = Append(@, "pgclose")]
               ELSE Exit(proc, 0, "done")
    /\ UNCHANGED <<now, redis, config, env, ops, req, nextId, queue, admitted, client, pg, drain>>

\* pgClient.close() resolves; clearTimeout, process.exit(0)
PgCloseDone ==
    /\ Alive
    /\ proc.pc = "pgclose"
    /\ pg' = [pg EXCEPT !.open = FALSE]
    /\ proc' = Exit(proc, 0, "done")
    /\ UNCHANGED <<now, redis, config, env, ops, req, nextId, queue, admitted, client, drain>>

\* server.close() or pgClient.close() rejects: the catch exits with 1
StepThrows ==
    /\ Alive
    /\ proc.pc \in {"close", "pgclose"}
    /\ proc' = Exit(proc, 1, "throw")
    /\ UNCHANGED <<now, redis, config, env, ops, req, nextId, queue, admitted, client, pg, drain>>

\* the callback of the ceiling timer
TimerFires ==
    /\ Alive
    /\ TimerDue(proc, now)
    /\ proc' = Exit(proc, 1, "timeout")
    /\ UNCHANGED <<now, redis, config, env, ops, req, nextId, queue, admitted, client, pg, drain>>

\* DELETE /admin/audit-logs/client/:ipHash
Erase(clientIpHash) ==
    /\ pg.open /\ env.dbUp
    /\ pg' = DeleteClientAuditLogs(pg, clientIpHash,
                IdsOf(queue \o drain.batch, clientIpHash))
    /\ UNCHANGED <<now, redis, config, env, ops, req, nextId, queue, admitted, client, drain, proc>>

\* POST /admin/audit-logs/cleanup
Sweep ==
    /\ pg.open /\ env.dbUp
    /\ pg' = CleanupExpiredLogs(pg, now)
    /\ UNCHANGED <<now, redis, config, env, ops, req, nextId, queue, admitted, client, drain, proc>>

\* the handlers of adminRoutes
AdminOps == {"query", "stats", "erase", "sweep"}

\* a request to an admin route, sent with operator credentials or without:
\* no hook and no handler reads them, the handler calls the store
Admin(op, operator, clientIpHash) ==
    /\ pg.open /\ env.dbUp
    /\ LET db == [pg EXCEPT !.byOperator = operator]
       IN  pg' = IF op = "erase"
                 THEN DeleteClientAuditLogs(db, clientIpHash,
                                            IdsOf(queue \o drain.batch, clientIpHash))
                 ELSE IF op = "sweep" THEN CleanupExpiredLogs(db, now)
                 ELSE ReadAuditLogs(db, op)
    /\ UNCHANGED <<now, redis, config, env, ops, req, nextId, queue, admitted, client, drain, proc>>

\* no reset or getStatus call has been made
NoOp ==
    [op |-> "none", type |-> "none", identifier |-> "", deleted |-> Null,
     status |-> [limit |-> Null, current |-> Null, remaining |-> Null, reset |-> Null,
                 resetIn |-> Null]]

\* RateLimiter.reset: KEYS, then DEL of what it found; returns the number
\* of keys deleted (the two store calls taken as one step)
Reset(type, identifier) ==
    /\ LET keys == {k \in BucketKeys : redis[k] # Absent /\ Matches(type, identifier, k)}
       IN  /\ redis' = Del(redis, keys)
           /\ ops' = [NoOp EXCEPT !.op = "reset", !.type = type, !.identifier = identifier,
                                  !.deleted = Cardinality(keys)]
    /\ UNCHANGED <<now, config, env, req, nextId, queue, admitted, client, pg, drain, proc>>

\* RateLimiter.getStatus: GET of the bucket of the current window. The
\* limits are looked up by type in { global, ip, apiKey }: the per-key
\* tier's own type "apikey" is rejected as invalid, and "apiKey" names keys
\* that no check writes, so the GET finds nothing.
GetStatus(type, identifier) ==
    /\ IF type \notin {"global", "ip", "apiKey"}
       THEN ops' = [NoOp EXCEPT !.op = "status", !.type = type, !.identifier = identifier]
       ELSE LET limit == IF type = "apiKey" THEN config.limits.apikey
                                            ELSE config.limits[type]
                windowStart == WindowStart(now, limit.window)
                key == BucketKey(type, identifier, windowStart)
                currentCount == IF key \in DOMAIN redis THEN redis[key].n ELSE 0
            IN  ops' = [NoOp EXCEPT !.op = "status", !.type = type, !.identifier = identifier,
                            !.status = [limit |-> limit.max, current |-> currentCount,
                                        remaining |-> Remaining(currentCount, limit.max),
                                        reset |-> windowStart + limit.window,
                                        resetIn |-> windowStart + limit.window - now]]
    /\ UNCHANGED <<now, redis, config, env, req, nextId, queue, admitted, client, pg, drain, proc>>

\* a second passes; keys past their expiry are evicted by the store
Tick ==
    /\ now < env.horizon
    /\ now' = now + 1
    /\ redis' = Evict(redis, now + 1)
    /\ UNCHANGED <<config, env, ops, req, nextId, queue, admitted, client, pg, drain, proc>>

Start ==
    /\ now = 0
    /\ redis = [k \in BucketKeys |-> Absent]
    /\ req = [r \in Slots |-> IdleReq]
    /\ nextId = 1
    /\ queue = <<>>
    /\ admitted = [k \in BucketKeys |-> 0]
    /\ client = FirstClient
    /\ pg = EmptyStore
    /\ drain = NoBatch
    /\ proc = Running
    /\ ops = NoOp

\* ---------------------------------------------------------- specifications
Next ==
    \/ \E r \in Slots : Arrive(r)
    \/ \E r \in Slots : PipelineFails(r)
    \/ \E r \in Slots : PipelineTtlFails(r)
    \/ \E r \in Slots : Pipeline(r)
    \/ \E r \in Slots : ExpireFails(r)
    \/ \E r \in Slots : ExpireKey(r)
    \/ \E r \in Slots : AttemptOk(r)
    \/ \E r \in Slots : AttemptFails(r)
    \/ \E r \in Slots : Wake(r)
    \/ \E r \in Slots : OnResponse(r)
    \/ Tick

\* the admission pipeline of chat requests sent one after the other: every
\* toggle, every body, every verdict and analyzer error
Init ==
    /\ Start
    /\ config \in {[rateLimiting |-> rl, auditLogging |-> al, maxRetries |-> mr,
                    auditAsync |-> TRUE, limits |-> Limits(1, 1, 1)] :
                        rl \in BOOLEAN, al \in BOOLEAN, mr \in {0, MaxRetriesBound}}
    /\ env = [urls |-> {ChatUrl}, idHeaders |-> {Null}, ips |-> {"ipA"}, keys |-> {NoApiKey},
              bodies |-> Bodies, verdicts |-> Verdicts \cup {NoVerdict},
              errors |-> ErrorCodes,
              arrivals |-> MaxChats, horizon |-> 1, concurrent |-> 1, dbUp |-> TRUE, uas |-> {NoUserAgent}]

Spec == Init /\ [][Next]_vars

\* requests to a route that answers at once; the store may fail
NextTiers ==
    \/ \E r \in Slots : Arrive(r)
    \/ \E r \in Slots : PipelineFails(r)
    \/ \E r \in Slots : PipelineTtlFails(r)
    \/ \E r \in Slots : Pipeline(r)
    \/ \E r \in Slots : ExpireFails(r)
    \/ \E r \in Slots : ExpireKey(r)
    \/ \E r \in Slots : OnResponse(r)
    \/ Tick

\* the tier cascade: callers with and without key, one request at a time,
\* every combination of tier maxima
InitTiers ==
    /\ Start
    /\ config \in {[rateLimiting |-> TRUE, auditLogging |-> FALSE, maxRetries |-> 0,
                    auditAsync |-> TRUE, limits |-> Limits(g, i, k)] :
                        g \in 1..MaxLimit, i \in 1..MaxLimit, k \in 1..MaxLimit}
    /\ env = [urls |-> {ModelsUrl}, idHeaders |-> {1}, ips |-> IPs,
              keys |-> ApiKeys \cup {NoApiKey},
              bodies |-> {NoMessages}, verdicts |-> {}, errors |-> {},
              arrivals |-> MaxArrivals, horizon |-> 1, concurrent |-> 1, dbUp |-> TRUE, uas |-> {NoUserAgent}]

SpecTiers == InitTiers /\ [][NextTiers]_vars

\* requests to a route that answers at once; every store call succeeds
NextRL ==
    \/ \E r \in Slots : Arrive(r)
    \/ \E r \in Slots : Pipeline(r)
    \/ \E r \in Slots : ExpireKey(r)
    \/ \E r \in Slots : OnResponse(r)
    \/ Tick

\* the buckets under two requests in flight (on one gateway or on two) and
\* a clock that crosses the window boundary; callers without key, so the
\* global and the per-caller tier, either of which may be the first to deny
InitRL ==
    /\ Start
    /\ config \in {[rateLimiting |-> TRUE, auditLogging |-> FALSE, maxRetries |-> 0,
                    auditAsync |-> TRUE, limits |-> Limits(MaxLimit, i, 1)] : i \in 1..MaxLimit}
    /\ env = [urls |-> {ModelsUrl}, idHeaders |-> {1}, ips |-> {"ipA"}, keys |-> {NoApiKey},
              bodies |-> {NoMessages}, verdicts |-> {}, errors |-> {},
              arrivals |-> MaxArrivals, horizon |-> LastSecond, concurrent |-> 2, dbUp |-> TRUE, uas |-> {NoUserAgent}]

SpecRL == InitRL /\ [][NextRL]_vars

\* checks of keyed callers, with administrative calls on the limiter
NextReset ==
    \/ \E r \in Slots : Arrive(r)
    \/ \E r \in Slots : Pipeline(r)
    \/ \E r \in Slots : ExpireKey(r)
    \/ \E r \in Slots : OnResponse(r)
    \/ \E type \in {"ip", "apikey"}, identifier \in {"ipA", "k1", LongKey} :
            Reset(type, identifier)
    \/ \E type \in {"ip", "apikey", "apiKey"}, identifier \in {"ipA", "k1"} :
            GetStatus(type, identifier)
    \/ Tick

\* one request at a time, from two callers whose keys differ after a colon
InitReset ==
    /\ Start
    /\ config = [rateLimiting |-> TRUE, auditLogging |-> FALSE, maxRetries |-> 0,
                 auditAsync |-> TRUE, limits |-> Limits(MaxLimit, MaxLimit, 1)]
    /\ env = [urls |-> {ModelsUrl}, idHeaders |-> {1}, ips |-> {"ipA"},
              keys |-> ApiKeys \cup {LongKey},
              bodies |-> {NoMessages}, verdicts |-> {}, errors |-> {},
              arrivals |-> 2, horizon |-> 1, concurrent |-> 1, dbUp |-> TRUE, uas |-> {NoUserAgent}]

SpecReset == InitReset /\ [][NextReset]_vars

\* requests answered at once, and their onResponse hooks
NextQueue ==
    \/ \E r \in Slots : Arrive(r)
    \/ \E r \in Slots : OnResponse(r)

\* the audit queue between two runs of the drainer: more requests are
\* answered than the queue holds
InitQueue ==
    /\ Start
    /\ config = [rateLimiting |-> FALSE, auditLogging |-> TRUE, maxRetries |-> 0,
                 auditAsync |-> TRUE, limits |-> Limits(1, 1, 1)]
    /\ env = [urls |-> {ModelsUrl}, idHeaders |-> {Null}, ips |-> {"ipA"}, keys |-> {NoApiKey},
              bodies |-> {NoMessages}, verdicts |-> {}, errors |-> {},
              arrivals |-> MaxEnqueued, horizon |-> 0, concurrent |-> 1, dbUp |-> TRUE, uas |-> {NoUserAgent}]

SpecQueue == InitQueue /\ [][NextQueue]_vars

\* every route, the not-found handler included; the audit store up or down
InitAudit ==
    /\ Start
    /\ config \in {[rateLimiting |-> rl, auditLogging |-> TRUE, maxRetries |-> 1,
                    auditAsync |-> TRUE, limits |-> Limits(1, 1, 1)] : rl \in BOOLEAN}
    /\ env \in {[urls |-> {ChatUrl, ModelsUrl, HealthUrl, AdminUrl, UnknownUrl},
                 idHeaders |-> {Null}, ips |-> {"ipA"}, keys |-> {NoApiKey},
                 bodies |-> {NoMessages, [messages |-> 1, len |-> 1, bytes |-> 2]},
                 verdicts |-> {v \in Verdicts :
                                v.detected_issues = 0 /\ v.confidence_score = 100},
                 errors |-> {"UNAVAILABLE"},
                 arrivals |-> MaxChats, horizon |-> 1, concurrent |-> 1, dbUp |-> up, uas |-> {NoUserAgent}] :
                    up \in BOOLEAN}

SpecAudit == InitAudit /\ [][Next]_vars

\* chat requests that pass validation, and their analyzer calls
NextClient ==
    \/ \E r \in Slots : Arrive(r)
    \/ \E r \in Slots : AttemptOk(r)
    \/ \E r \in Slots : AttemptFails(r)
    \/ \E r \in Slots : Wake(r)
    \/ \E r \in Slots : OnResponse(r)

\* the analyzer client under two calls in flight: every retry budget up to
\* the default, every error code on every attempt
InitClient ==
    /\ Start
    /\ config \in {[rateLimiting |-> FALSE, auditLogging |-> FALSE, maxRetries |-> mr,
                    auditAsync |-> TRUE, limits |-> Limits(1, 1, 1)] : mr \in 0..MaxClientRetries}
    /\ env = [urls |-> {ChatUrl}, idHeaders |-> {1}, ips |-> {"ipA"}, keys |-> {NoApiKey},
              bodies |-> {[messages |-> 1, len |-> 1, bytes |-> 2]},
              verdicts |-> {v \in Verdicts :
                             v.is_safe /\ v.detected_issues = 0 /\ v.confidence_score = 100},
              errors |-> ErrorCodes,
              arrivals |-> 2, horizon |-> 0, concurrent |-> 2, dbUp |-> TRUE, uas |-> {NoUserAgent}]

SpecClient == InitClient /\ [][NextClient]_vars

\* a connection is accepted while the server listens
Accept(r) == Alive /\ proc.listening /\ Arrive(r)

\* the onResponse hooks run while the process lives
Reply(r) == Alive /\ OnResponse(r)

\* the clock, as far as the process sees it
Clock == Alive /\ Tick

NextShutdown ==
    \/ \E r \in Slots : Accept(r)
    \/ \E r \in Slots : Reply(r)
    \/ Drain
    \/ Insert
    \/ Signal
    \/ FlushWake
    \/ CloseDone
    \/ PgCloseDone
    \/ StepThrows
    \/ TimerFires
    \/ Clock

\* a gateway that serves requests and fills its audit queue when the signal
\* comes; server.close() and the inserts may take for ever
InitShutdown ==
    /\ Start
    /\ config \in {[rateLimiting |-> FALSE, auditLogging |-> al, maxRetries |-> 0,
                    auditAsync |-> TRUE, limits |-> Limits(1, 1, 1)] : al \in BOOLEAN}
    /\ env = [urls |-> {ModelsUrl}, idHeaders |-> {Null}, ips |-> {"ipA"}, keys |-> {NoApiKey},
              bodies |-> {NoMessages}, verdicts |-> {}, errors |-> {},
              arrivals |-> MaxLogged, horizon |-> ShutdownTimeout + 1, concurrent |-> 2,
              dbUp |-> TRUE, uas |-> {NoUserAgent}]

SpecShutdown == InitShutdown /\ [][NextShutdown]_vars

\* timers run: the event loop is never blocked, every step of the handler
\* is an await
SpecShutdownLive == SpecShutdown /\ WF_vars(Clock) /\ WF_vars(TimerFires)

\* the fingerprints an erasure call may name
ClientHashes == {Hash(ip, "") : ip \in env.ips}

\* requests, the drainer, and erasure calls of the admin route
NextErase ==
    \/ \E r \in Slots : Arrive(r)
    \/ \E r \in Slots : OnResponse(r)
    \/ Drain
    \/ Insert
    \/ \E h \in ClientHashes : Erase(h)

\* the audit pipeline from the reply to the table, two callers
InitErase ==
    /\ Start
    /\ config = [rateLimiting |-> FALSE, auditLogging |-> TRUE, maxRetries |-> 0,
                 auditAsync |-> TRUE, limits |-> Limits(1, 1, 1)]
    /\ env = [urls |-> {ModelsUrl}, idHeaders |-> {Null}, ips |-> IPs, keys |-> {NoApiKey},
              bodies |-> {NoMessages}, verdicts |-> {}, errors |-> {},
              arrivals |-> MaxLogged, horizon |-> 0, concurrent |-> 1,
              dbUp |-> TRUE, uas |-> {NoUserAgent}]

SpecErase == InitErase /\ [][NextErase]_vars

\* requests, the drainer, and sweeps of the admin route as time passes
NextSweep ==
    \/ \E r \in Slots : Arrive(r)
    \/ \E r \in Slots : OnResponse(r)
    \/ Drain
    \/ Insert
    \/ Sweep
    \/ Tick

\* rows inserted at different times, and a clock that passes the retention
\* of the earliest
InitSweep ==
    /\ Start
    /\ config = [rateLimiting |-> FALSE, auditLogging |-> TRUE, maxRetries |-> 0,
                 auditAsync |-> TRUE, limits |-> Limits(1, 1, 1)]
    /\ env = [urls |-> {ModelsUrl}, idHeaders |-> {Null}, ips |-> {"ipA"}, keys |-> {NoApiKey},
              bodies |-> {NoMessages}, verdicts |-> {}, errors |-> {},
              arrivals |-> MaxLogged, horizon |-> RetentionSeconds + 1, concurrent |-> 1,
              dbUp |-> TRUE, uas |-> {NoUserAgent}]

SpecSweep == InitSweep /\ [][NextSweep]_vars

\* callers with and without API key and user-agent, and the entries built
\* for them
InitEntries ==
    /\ Start
    /\ config = [rateLimiting |-> FALSE, auditLogging |-> TRUE, maxRetries |-> 0,
                 auditAsync |-> TRUE, limits |-> Limits(1, 1, 1)]
    /\ env = [urls |-> {ModelsUrl}, idHeaders |-> {Null}, ips |-> IPs,
              keys |-> ApiKeys \cup {NoApiKey},
              bodies |-> {NoMessages}, verdicts |-> {}, errors |-> {},
              arrivals |-> MaxChats, horizon |-> 0, concurrent |-> 1,
              dbUp |-> TRUE, uas |-> UserAgents]

SpecEntries == InitEntries /\ [][NextQueue]_vars

\* the probes, as a monitor may send them, among other requests; the tier
\* maxima are small, so the limits are exhausted when a probe comes
InitProbes ==
    /\ Start
    /\ config \in {[rateLimiting |-> TRUE, auditLogging |-> TRUE, maxRetries |-> 0,
                    auditAsync |-> TRUE, limits |-> Limits(g, MaxLimit, 1)] : g \in 1..MaxLimit}
    /\ env = [urls |-> {ModelsUrl, HealthUrl, ReadyUrl, HealthProbeUrl, ReadyProbeUrl},
              idHeaders |-> {Null}, ips |-> {"ipA"}, keys |-> {NoApiKey},
              bodies |-> {NoMessages}, verdicts |-> {}, errors |-> {},
              arrivals |-> MaxArrivals, horizon |-> 1, concurrent |-> 1,
              dbUp |-> TRUE, uas |-> {NoUserAgent}]

SpecProbes == InitProbes /\ [][NextRL]_vars

\* requests with and without an inbound X-Request-Id, to every route
InitHeaders ==
    /\ Start
    /\ config = [rateLimiting |-> TRUE, auditLogging |-> TRUE, maxRetries |-> 1,
                 auditAsync |-> TRUE, limits |-> Limits(1, 1, 1)]
    /\ env = [urls |-> {ChatUrl, ModelsUrl, UnknownUrl},
              idHeaders |-> {Null, EmptyHeader, 7}, ips |-> {"ipA"}, keys |-> {NoApiKey},
              bodies |-> {NoMessages, [messages |-> 1, len |-> 1, bytes |-> 2]},
              verdicts |-> {v \in Verdicts :
                             v.detected_issues = 0 /\ v.confidence_score = 100},
              errors |-> {"UNAVAILABLE"},
              arrivals |-> MaxChats, horizon |-> 1, concurrent |-> 1, dbUp |-> TRUE,
              uas |-> {NoUserAgent}]

SpecHeaders == InitHeaders /\ [][Next]_vars

\* chat requests that all carry one body, any of ChatBodies; the limiter on
\* or off
InitChat ==
    /\ Start
    /\ config \in {[rateLimiting |-> rl, auditLogging |-> TRUE, maxRetries |-> 1,
                    auditAsync |-> TRUE, limits |-> Limits(1, 1, 1)] : rl \in BOOLEAN}
    /\ env \in {[urls |-> {ChatUrl}, idHeaders |-> {Null}, ips |-> {"ipA"}, keys |-> {NoApiKey},
                 bodies |-> {b},
                 verdicts |-> {v \in Verdicts :
                                v.detected_issues = 0 /\ v.confidence_score = 100},
                 errors |-> {"UNAVAILABLE"},
                 arrivals |-> MaxChats, horizon |-> 1, concurrent |-> 1, dbUp |-> TRUE,
                 uas |-> {NoUserAgent}] : b \in ChatBodies}

SpecChat == InitChat /\ [][Next]_vars

\* requests, the drainer, and admin requests from operators and from others
NextAdmin ==
    \/ \E r \in Slots : Arrive(r)
    \/ \E r \in Slots : OnResponse(r)
    \/ Drain
    \/ Insert
    \/ \E op \in AdminOps, operator \in BOOLEAN, h \in ClientHashes : Admin(op, operator, h)
    \/ Tick

\* rows in the table, some of them expired, when the admin requests come
InitAdmin ==
    /\ Start
    /\ config = [rateLimiting |-> FALSE, auditLogging |-> TRUE, maxRetries |-> 0,
                 auditAsync |-> TRUE, limits |-> Limits(1, 1, 1)]
    /\ env = [urls |-> {ModelsUrl}, idHeaders |-> {Null}, ips |-> {"ipA"}, keys |-> {NoApiKey},
              bodies |-> {NoMessages}, verdicts |-> {}, errors |-> {},
              arrivals |-> MaxChats, horizon |-> RetentionSeconds + 1, concurrent |-> 1,
              dbUp |-> TRUE, uas |-> {NoUserAgent}]

SpecAdmin == InitAdmin /\ [][NextAdmin]_vars

\* the audit logger in either mode, from the replies to the shutdown; the
\* store up or down
InitModes ==
    /\ Start
    /\ config \in {[rateLimiting |-> FALSE, auditLogging |-> TRUE, maxRetries |-> 0,
                    auditAsync |-> as, limits |-> Limits(1, 1, 1)] : as \in BOOLEAN}
    /\ env \in {[urls |-> {ModelsUrl}, idHeaders |-> {Null}, ips |-> {"ipA"}, keys |-> {NoApiKey},
                 bodies |-> {NoMessages}, verdicts |-> {}, errors |-> {},
                 arrivals |-> MaxLogged, horizon |-> ShutdownTimeout + 1, concurrent |-> 2,
                 dbUp |-> up, uas |-> {NoUserAgent}] : up \in BOOLEAN}

SpecModes == InitModes /\ [][NextShutdown]_vars

\* the gateway up to the return of flush: requests, the drainer, the signal
NextFlush ==
    \/ \E r \in Slots : Accept(r)
    \/ \E r \in Slots : Reply(r)
    \/ Drain
    \/ Insert
    \/ Signal
    \/ FlushWake

\* entries in the queue and a batch under way when the signal comes; the
\* store up or down, the ceiling timer left out
InitFlush ==
    /\ Start
    /\ config = [rateLimiting |-> FALSE, auditLogging |-> TRUE, maxRetries |-> 0,
                 auditAsync |-> TRUE, limits |-> Limits(1, 1, 1)]
    /\ env \in {[urls |-> {ModelsUrl}, idHeaders |-> {Null}, ips |-> {"ipA"}, keys |-> {NoApiKey},
                 bodies |-> {NoMessages}, verdicts |-> {}, errors |-> {},
                 arrivals |-> MaxLogged, horizon |-> ShutdownTimeout, concurrent |-> 2,
                 dbUp |-> up, uas |-> {NoUserAgent}] : up \in BOOLEAN}

SpecFlush == InitFlush /\ [][NextFlush]_vars

\* every insert settles, with a row or with an error, and the 100 ms timer
\* of flush fires
SpecFlushLive == SpecFlush /\ WF_vars(Insert) /\ WF_vars(FlushWake)

\* requests, the drainer, and inserts that succeed or fail one by one
NextDrain ==
    \/ \E r \in Slots : Arrive(r)
    \/ \E r \in Slots : OnResponse(r)
    \/ Drain
    \/ Insert
    \/ InsertFails

\* more entries than one batch holds, so the drainer runs more than once
InitDrain ==
    /\ Start
    /\ config = [rateLimiting |-> FALSE, auditLogging |-> TRUE, maxRetries |-> 0,
                 auditAsync |-> TRUE, limits |-> Limits(1, 1, 1)]
    /\ env = [urls |-> {ModelsUrl}, idHeaders |-> {Null}, ips |-> IPs, keys |-> {NoApiKey},
              bodies |-> {NoMessages}, verdicts |-> {}, errors |-> {},
              arrivals |-> MaxLogged, horizon |-> 0, concurrent |-> 1,
              dbUp |-> TRUE, uas |-> {NoUserAgent}]

SpecDrain == InitDrain /\ [][NextDrain]_vars

\* ------------------------------------------------------------------ claims
Responded(r) == req[r].pc = "responded"

\* the onResponse step of slot r
Logged(r) == req[r].pc = "responded" /\ req'[r].pc = "idle"

MaxOf(k) == config.limits[k[1]].max

WindowEnd(k) == k[3] + config.limits[k[1]].window

\* C1: a request reaches the forward stage (and is answered 501) only if
\* its analyzer call resolved with a verdict whose is_safe is true; a
\* request whose call failed, or whose verdict is unsafe or missing, is
\* never forwarded.
C1_ForwardOnlyIfSafe ==
    \A r \in Slots :
        (req[r].status = 501 \/ "forward" \in req[r].stages)
            => /\ "analyze" \in req[r].stages
               /\ req[r].verdict.present
               /\ req[r].verdict.is_safe

C1_Witness ==
    \E r \in Slots :
        /\ Responded(r)
        /\ req[r].status = 501
        /\ "forward" \in req[r].stages
        /\ req[r].verdict.is_safe

\* C2: when every attempt of the analyzer call of a request ended
\* UNAVAILABLE, the request is answered 503 and is not forwarded, whatever
\* the toggles, the body and the retry budget.
C2_UnavailableAnswers503 ==
    \A r \in Slots :
        (Responded(r) /\ req[r].allUnavailable)
            => /\ req[r].status = 503
               /\ "forward" \notin req[r].stages

C2_Witness ==
    \E r \in Slots :
        /\ Responded(r)
        /\ req[r].allUnavailable
        /\ config.maxRetries >= 1
        /\ req[r].status = 503

\* C3: with audit logging on, a request whose verdict has is_safe = false
\* is answered 403 and its audit entry has is_blocked = true, block_reason
\* content-policy-violation, detected_issues_count = the number of issues of
\* the verdict and security_confidence = the confidence of the verdict, for
\* every confidence and every issue count.
C3_UnsafeVerdictAudited ==
    [][\A r \in Slots :
        (Logged(r) /\ config.auditLogging
            /\ req[r].verdict.present /\ ~req[r].verdict.is_safe)
        => /\ req[r].status = 403
           /\ Len(queue') = Len(queue) + 1
           /\ LET e == queue'[Len(queue')]
              IN  /\ e.is_blocked
                  /\ e.block_reason = "CONTENT_POLICY_VIOLATION"
                  /\ e.detected_issues_count = req[r].verdict.detected_issues
                  /\ e.security_confidence = req[r].verdict.confidence_score]_vars

\* C4 as stated: of the checks that increment one bucket, at most max are
\* ever allowed by its tier, under every interleaving.
C4_AtMostMaxAllowed ==
    \A k \in BucketKeys : admitted[k] <= MaxOf(k)

\* C4 amended: until the window of a bucket has ended, at most max of the
\* checks that increment the bucket are allowed by its tier, under every
\* interleaving; the (max+1)-th and later increments made by then are denied.
C4_AtMostMaxAllowedInWindow ==
    \A k \in BucketKeys : now < WindowEnd(k) => admitted[k] <= MaxOf(k)

C4_Witness ==
    \E k \in BucketKeys :
        /\ now < WindowEnd(k)
        /\ redis[k].n > MaxOf(k)
        /\ admitted[k] = MaxOf(k)
        /\ Cardinality(InFlight) = 2

\* C5: the tiers are checked global, then per-caller, then per-key (only
\* with a key), and a tier is reached only after every earlier tier
\* allowed: the per-caller counter is incremented only by a request the
\* global tier allowed, the per-key counter only by a keyed request that the
\* global and the per-caller tier allowed.
C5_TierOrder ==
    [][\A k \in BucketKeys :
        redis'[k].n > redis[k].n
        => \E r \in Slots :
            LET q == req[r]
                passed(c, type) == c.allowed /\ c.type = type
            IN  /\ q.pc = "pipeline"
                /\ req'[r] # q
                /\ KeyOf(q) = k
                /\ k[1] = "global" => q.globalCheck = NoCheck /\ q.ipCheck = NoCheck
                /\ k[1] = "ip" => passed(q.globalCheck, "global") /\ q.ipCheck = NoCheck
                /\ k[1] = "apikey" => /\ passed(q.globalCheck, "global")
                                      /\ passed(q.ipCheck, "ip")
                                      /\ q.apiKey # NoApiKey]_vars

C5_Witness ==
    \E r \in Slots :
        /\ Responded(r)
        /\ req[r].status = 429
        /\ req[r].rateLimit.type = "global"
        /\ req[r].apiKey # NoApiKey
        /\ \A w \in WindowStarts :
            /\ redis[BucketKey("ip", req[r].ip, w)].n = 0
            /\ redis[BucketKey("apikey", req[r].apiKey, w)].n = 0

\* C6: when a store call of the check of a request fails, at whatever tier,
\* checkLimit returns allowed = true with limit, remaining and reset null,
\* the request goes on to its route, and its response has no X-RateLimit-*
\* and no Retry-After header.
C6_FailOpen ==
    \A r \in Slots :
        req[r].storeErr
            => /\ req[r].rateLimit.allowed
               /\ req[r].rateLimit.limit = Null
               /\ req[r].rateLimit.remaining = Null
               /\ req[r].rateLimit.reset = Null
               /\ req[r].hdr = NoHeaders
               /\ Responded(r)
               /\ req[r].status = 200

C6_Witness ==
    \E r \in Slots :
        /\ req[r].storeErr
        /\ Responded(r)
        /\ req[r].status = 200
        /\ req[r].globalCheck.type = "global"
        /\ req[r].ipCheck.type = "ip"
        /\ req[r].hdr = NoHeaders

\* C7: until the window of a bucket has ended, every increment of the
\* bucket returns the count before it plus one (1, 2, 3, ...), and the
\* remaining computed from the counts never goes up and is never negative.
C7_CountsIncrease ==
    [][\A k \in BucketKeys :
        (redis'[k].n # redis[k].n /\ now' < WindowEnd(k))
        => /\ redis'[k].n = redis[k].n + 1
           /\ Remaining(redis'[k].n, MaxOf(k)) <= Remaining(redis[k].n, MaxOf(k))
           /\ Remaining(redis'[k].n, MaxOf(k)) >= 0
           /\ \E r \in Slots :
                /\ req[r].pc = "pipeline"
                /\ KeyOf(req[r]) = k
                /\ req'[r].pc = "expire" => req'[r].cnt = redis[k].n + 1]_vars

C7_Witness ==
    \E k \in BucketKeys :
        /\ now < WindowEnd(k)
        /\ redis[k].n = 3
        /\ MaxOf(k) = 2

\* C8: for a caller without key whose store calls succeeded: when the
\* limiter admits the request, X-RateLimit-Remaining is the remaining of
\* the global tier (G-1, ..., 0 over the first G requests); when the global
\* tier denies, the response is 429 with X-RateLimit-Remaining 0 and a
\* Retry-After of at most the window length.
C8_GlobalRemainingShown ==
    \A r \in Slots :
        (Responded(r) /\ req[r].apiKey = NoApiKey /\ ~req[r].storeErr)
        => IF req[r].rateLimit.type = "global"
           THEN /\ req[r].status = 429
                /\ req[r].hdr.remaining = 0
                /\ req[r].hdr.retryAfter \in 1..config.limits.global.window
           ELSE req[r].rateLimit.allowed
                    => req[r].hdr.remaining = req[r].globalCheck.remaining

\* C9: a request the limiter denies is answered 429 with Retry-After and
\* the X-RateLimit-* values of the denying tier, and neither validation nor
\* the analyzer call nor the forward stage is run for it.
C9_DenialAnswers429 ==
    \A r \in Slots :
        (req[r].pc # "idle" /\ ~req[r].rateLimit.allowed)
        => LET d == req[r].rateLimit
               limit == config.limits[d.type]
           IN  /\ Responded(r)
               /\ req[r].status = 429
               /\ d.type \in Tiers
               /\ req[r].hdr.retryAfter = d.retryAfter
               /\ req[r].hdr.retryAfter \in 1..limit.window
               /\ req[r].hdr.limit = limit.max
               /\ req[r].hdr.remaining = 0
               /\ req[r].hdr.reset = d.reset
               /\ req[r].stages = {"ratelimit"}
               /\ ~req[r].verdict.present

C9_Witness ==
    \E r \in Slots :
        /\ Responded(r)
        /\ req[r].status = 429
        /\ req[r].url = ChatUrl
        /\ ~req[r].rateLimit.allowed
        /\ req[r].hdr.retryAfter >= 1

\* C10: with audit logging on, the audit entry of a request answered 429
\* has is_blocked = true and the rate-limit block reason, and the entry of a
\* request answered 403 has is_blocked = true and block_reason
\* content-policy-violation.
C10_BlockedEntries ==
    [][\A r \in Slots :
        (Logged(r) /\ config.auditLogging /\ req[r].status \in {403, 429})
        => /\ Len(queue') = Len(queue) + 1
           /\ LET e == queue'[Len(queue')]
              IN  /\ e.response_status = req[r].status
                  /\ e.is_blocked
                  /\ e.block_reason =
                        IF req[r].status = 429 THEN "RATE_LIMIT"
                        ELSE "CONTENT_POLICY_VIOLATION"]_vars

\* entries handed to _queueLog so far (request ids are handed out in order)
Enqueued == nextId - 1 - Cardinality(InFlight)

\* C12: with the drainer paused, of K entries handed to the empty queue the
\* first min(K, 1000) are kept in order and the other max(0, K - 1000) are
\* dropped; the queue never holds more than 1000 entries; and a request
\* whose entry is dropped is answered like any other and its onResponse
\* hook completes.
C12_QueueKeepsFirst ==
    /\ Len(queue) <= maxQueueSize
    /\ Len(queue) = IF Enqueued <= maxQueueSize THEN Enqueued ELSE maxQueueSize
    /\ Enqueued - Len(queue) = IF Enqueued > maxQueueSize THEN Enqueued - maxQueueSize ELSE 0
    /\ \A i \in 1..Len(queue) : queue[i].request_id = i
    /\ \A r \in Slots :
        Responded(r) => req[r].status = 200 /\ ENABLED OnResponse(r)

C12_Witness ==
    /\ Enqueued = maxQueueSize + 2
    /\ Len(queue) = maxQueueSize
    /\ queue[maxQueueSize].request_id = maxQueueSize

\* the entries of the queue that carry the request id
EntriesOf(qu, id) == {i \in 1..Len(qu) : qu[i].request_id = id}

\* C11: with audit logging on, every request other than /health, whatever
\* its status (400, 403, 429, 501, 503, 500, 404 or 200), gets exactly one
\* audit entry, built and handed to the queue in its onResponse hook, after
\* the reply was sent: no entry exists while the request is in flight, the
\* queue grows only in such a step, and /health gets none.
C11_AuditedOnceAfterResponse ==
    [][/\ \A r \in Slots :
            /\ req'[r].pc # "idle" => EntriesOf(queue', req'[r].id) = {}
            /\ (req[r].pc # "idle" /\ req'[r].pc = "idle")
                => /\ Responded(r)
                   /\ IF req[r].url = HealthUrl
                      THEN queue' = queue
                      ELSE /\ Len(queue') = Len(queue) + 1
                           /\ EntriesOf(queue', req[r].id) = {Len(queue')}
                           /\ queue'[Len(queue')].response_status = req[r].status
                           /\ SubSeq(queue', 1, Len(queue)) = queue
       /\ queue' # queue => \E r \in Slots : Logged(r)]_vars

C11_Witness ==
    /\ \E i \in 1..Len(queue) : queue[i].response_status = 404
    /\ \E r \in Slots :
        /\ Responded(r)
        /\ req[r].status = 500
        /\ EntriesOf(queue, req[r].id) = {}

\* the step in which an attempt of the call of slot r fails
AttemptFailed(r) ==
    /\ req[r].pc = "attempt"
    /\ req'[r].pc = "sleep" \/ req'[r].thrown # "none"

\* the error that attempt failed with
FailureCode(r) == IF req'[r].pc = "sleep" THEN req'[r].lastError ELSE req'[r].thrown

\* C13: with maxRetries = N, attempt k (0-based) of a call is issued after
\* a cumulative backoff of (2^k - 1) seconds and k <= N; an attempt k that
\* fails with unavailable or deadline-exceeded is followed, when k < N, by a
\* sleep of 2^k seconds and attempt k + 1, and when k = N by no sleep: the
\* call then rejects with the error of that last attempt (after N + 1
\* attempts and 2^N - 1 seconds of backoff) and the reply is 503.
C13_BackoffThenLastError ==
    [][\A r \in Slots :
        LET q == req[r]
            N == config.maxRetries
        IN  /\ q.pc = "attempt"
                => q.attempt <= N /\ q.slept = ((2 ^ q.attempt) - 1) * 1000
            /\ (q.pc = "sleep" /\ req'[r] # q)
                => /\ req'[r].pc = "attempt"
                   /\ req'[r].attempt = q.attempt + 1
                   /\ req'[r].slept = q.slept + (2 ^ q.attempt) * 1000
            /\ (AttemptFailed(r) /\ FailureCode(r) \in {"UNAVAILABLE", "DEADLINE_EXCEEDED"})
                => IF q.attempt < N
                   THEN /\ req'[r].pc = "sleep"
                        /\ req'[r].attempt = q.attempt
                        /\ req'[r].delay = (2 ^ q.attempt) * 1000
                   ELSE /\ req'[r].pc = "responded"
                        /\ req'[r].thrown = FailureCode(r)
                        /\ req'[r].slept = ((2 ^ N) - 1) * 1000
                        /\ req'[r].status = 503]_vars

C13_Witness ==
    \E r \in Slots :
        /\ config.maxRetries = 3
        /\ Responded(r)
        /\ req[r].thrown = "DEADLINE_EXCEEDED"
        /\ req[r].slept = 7000
        /\ req[r].status = 503

\* C14: an attempt that fails with invalid-argument, on whichever attempt,
\* ends the call at once: the call rejects with that error in the same
\* step, with no sleep added and the client object untouched, and no state
\* has a call sleeping or retrying after an invalid-argument error.
C14_InvalidArgumentSurfaces ==
    [][\A r \in Slots :
        /\ (AttemptFailed(r) /\ FailureCode(r) = "INVALID_ARGUMENT")
            => /\ req'[r].pc = "responded"
               /\ req'[r].thrown = "INVALID_ARGUMENT"
               /\ req'[r].slept = req[r].slept
               /\ req'[r].delay = 0
               /\ req'[r].status = 503
               /\ client' = client
        /\ req'[r].lastError = "INVALID_ARGUMENT" => req'[r].pc \notin {"sleep", "attempt"}]_vars

C14_Witness ==
    \E r \in Slots :
        /\ Responded(r)
        /\ req[r].thrown = "INVALID_ARGUMENT"
        /\ req[r].slept = 3000
        /\ config.maxRetries = 3

\* C15: when the sleep after an attempt that failed with unavailable or
\* deadline-exceeded ends, the client closes the channel that attempt was
\* sent on and makes a new one, and the next attempt is sent on the new
\* one, never on the one the failed attempt was sent on.
C15_TeardownBeforeRetry ==
    [][\A r \in Slots :
        (req[r].pc = "sleep" /\ req'[r].pc = "attempt"
            /\ req[r].lastError \in {"UNAVAILABLE", "DEADLINE_EXCEEDED"})
        => /\ req'[r].sentOn = client'.inst
           /\ req'[r].sentOn # req[r].sentOn
           /\ req[r].sentOn \in client'.closed]_vars

\* step s of the shutdown has begun
Began(p, s) == \E i \in 1..Len(p.steps) : p.steps[i] = s

\* C16: after a termination signal the flush of the audit queue begins
\* only when the server has stopped accepting and no request is in flight,
\* and the process exits with code 0 only after the flush, with the analyzer
\* channel closed and the pool of the audit store closed.
C16_ShutdownOrder ==
    [][/\ (~Began(proc, "flush") /\ Began(proc', "flush"))
            => ~proc'.listening /\ InFlight = {}
       /\ (proc.exit = Null /\ proc'.exit = 0)
            => /\ client'.inst \in client'.closed
               /\ ~pg'.open
               /\ Began(proc', "flush")]_vars

\* C17: a shutdown always ends in an exit: code 0 only when server.close()
\* and, with audit logging on, the flush and pgClient.close() completed and
\* the ceiling timer had not fired; code 1 only when the timer fired, the
\* ceiling being reached, or a step threw; and once the signal has come the
\* process exits, even if the flush or server.close() never completes.
C17_ShutdownExits ==
    /\ [](proc.exit = 0
            => /\ proc.cause = "done"
               /\ Began(proc, "close") /\ ~proc.listening /\ InFlight = {}
               /\ config.auditLogging
                    => Began(proc, "flush") /\ Began(proc, "pgclose") /\ ~pg.open)
    /\ [](proc.exit = 1
            => \/ proc.cause = "timeout" /\ now >= proc.deadline
               \/ proc.cause = "throw" /\ Began(proc, "close"))
    /\ [](proc.exit \in {Null, 0, 1})
    /\ (proc.pc # "running") ~> (proc.exit # Null)

C17_Witness ==
    /\ proc.exit = 1
    /\ proc.cause = "timeout"
    /\ drain.processing
    /\ drain.by = "flush"
    /\ proc.listening

\* C18: the entries the audit pipeline had accepted for a caller when an
\* erasure call for that caller ran are in no later state rows of the
\* table, so that a query by the caller's fingerprint after the call
\* returns none of them.
C18_ErasedStayErased ==
    \A ip \in IPs :
        \A i \in 1..Len(QueryAuditLogs(pg, Hash(ip, ""))) :
            QueryAuditLogs(pg, Hash(ip, ""))[i].entry.request_id \notin pg.erased

\* C19: a sweep removes exactly the rows whose retention_until is before
\* the time of the call, keeps every row with retention_until >= now, and
\* returns the number removed; a sweep that follows a sweep, no row having
\* been inserted or having expired since, removes nothing and returns 0.
C19_SweepExact ==
    [][(pg'.last \in {"sweep", "sweep again"} /\ pg' # pg)
        => /\ pg'.rows = SelectSeq(pg.rows, LAMBDA row : row.retention_until >= now)
           /\ pg'.result = Len(pg.rows) - Len(pg'.rows)
           /\ (pg'.last = "sweep again"
                    /\ \A i \in 1..Len(pg.rows) : pg.rows[i].retention_until >= now)
                => pg'.result = 0 /\ pg'.rows = pg.rows]_vars

C19_Witness ==
    /\ pg.last = "sweep again"
    /\ pg.result = 0
    /\ \E i \in 1..Len(pg.rows) : pg.rows[i].retention_until = now
    /\ Len(pg.rows) < nextId - 1 - Len(queue) - Len(drain.batch) - Cardinality(InFlight)

\* the non-empty runs of characters of s
Substrings(s) == {SubSeq(s, i, j) : i \in 1..Len(s), j \in 1..Len(s)} \ {<<>>}

\* C20: the entry built for a request carries the client IP, the
\* user-agent and the API key as digests only: no text field of the entry,
\* the metadata included, is or holds the IP, the key, the user-agent or a
\* part of the user-agent.
C20_NoRawIdentifiers ==
    [][\A r \in Slots :
        (Logged(r) /\ Len(queue') = Len(queue) + 1)
        => LET e == queue'[Len(queue')]
               q == req[r]
           IN  /\ e.client_ip_hash = Hash(q.ip, "")
               /\ e.user_agent_hash = Hash(q.ua, NoUserAgent)
               /\ e.api_key_hash = Hash(q.apiKey, NoApiKey)
               /\ {e.path, e.metadata.request_path} \cap {q.ip, q.apiKey} = {}
               /\ Substrings(e.metadata.user_agent_truncated) \cap Substrings(q.ua) = {}]_vars

\* C21: the digest of a value is the same on every call and is a digest,
\* not null, when the value is present; and the digest of an absent value
\* (the key of a request without key, null) is not the digest of the empty
\* string (the user-agent of a request without that header).
C21_DigestTellsAbsence ==
    [][\A r \in Slots :
        (Logged(r) /\ Len(queue') = Len(queue) + 1)
        => LET e == queue'[Len(queue')]
               q == req[r]
           IN  /\ e.client_ip_hash = Hash(q.ip, "") /\ ~e.client_ip_hash.null
               /\ q.apiKey # NoApiKey => ~e.api_key_hash.null
               /\ q.ua # NoUserAgent => ~e.user_agent_hash.null
               /\ (q.apiKey = NoApiKey /\ q.ua = NoUserAgent)
                    => e.api_key_hash # e.user_agent_hash]_vars

\* the paths of the liveness and the readiness probe
ProbePaths == {HealthUrl, ReadyUrl}

\* C22: a request to the path /health or /ready never increments a
\* rate-limit counter and is never answered 429, also when the limits are
\* exhausted: every increment of a counter is made for a request to another
\* path; and a request to /health leaves the audit queue as it is.
C22_ProbesExempt ==
    [][/\ \A k \in BucketKeys :
            redis'[k].n > redis[k].n
            => \E r \in Slots :
                /\ req[r].pc = "pipeline"
                /\ req'[r] # req[r]
                /\ KeyOf(req[r]) = k
                /\ PathOf(req[r].url) \notin ProbePaths
       /\ \A r \in Slots :
            /\ (PathOf(req'[r].url) \in ProbePaths /\ req'[r].pc = "responded")
                => req'[r].status = 200
            /\ (Logged(r) /\ PathOf(req[r].url) = HealthUrl) => queue' = queue]_vars

\* C23: every reply, whatever its status (429, 400, 403, 503, 404 or
\* another), goes out with X-Request-Id, the inbound X-Request-Id when that
\* header came with a value and else an id generated for this request, and
\* with X-Response-Time.
C23_HeadersOnEveryResponse ==
    \A r \in Slots :
        Responded(r)
        => /\ req[r].sent.requestId # Null
           /\ req[r].sent.requestId = req[r].id
           /\ IF req[r].idIn \notin {Null, EmptyHeader}
              THEN req[r].id = req[r].idIn
              ELSE req[r].id = nextId - 1
           /\ req[r].sent.responseTime # Null

\* the body the requests of this run carry
TheBody == CHOOSE b \in env.bodies : TRUE

\* the handler of slot r was reached or the request answered before it,
\* the rate limiter having let it through
PassedRateLimit(r) ==
    /\ req[r].pc \in {"attempt", "sleep", "responded"}
    /\ req[r].rateLimit.allowed

\* C24: a chat request that passed rate limiting is answered 400 without
\* an analyzer call exactly when its messages are missing or empty or its
\* total content length is below minContentLength or above
\* maxContentLength; with a total within the bounds, the bounds included,
\* the analyzer is called.
C24_ValidationBounds ==
    \A r \in Slots :
        PassedRateLimit(r)
        => LET b == TheBody
               outside == \/ b.messages \in {Null, 0}
                          \/ b.len < minContentLength
                          \/ b.len > maxContentLength
           IN  /\ (req[r].status = 400 /\ "analyze" \notin req[r].stages) <=> outside
               /\ ~outside => "analyze" \in req[r].stages

\* C25: an admin request from a caller without operator authorization has
\* no effect: whenever a query, the statistics, an erasure or a sweep reads
\* or deletes rows of the table, the request came from an operator.
C25_AdminNeedsOperator ==
    [][(pg' # pg /\ pg'.last \in AdminOps \cup {"sweep again"}
            /\ (pg'.last # pg.last \/ pg'.rows # pg.rows \/ pg'.result # pg.result
                    \/ pg'.byOperator # pg.byOperator))
        => pg'.byOperator]_vars

\* C26: in asynchronous mode a reply's onResponse hook only appends its
\* entry to the queue (or drops it) and leaves the table alone, and a row is
\* added only by _processQueue, from the head of the batch it took; in
\* synchronous mode the hook itself inserts the entry into the table, the
\* queue is always empty and no batch is ever taken.
C26_OneWriterPerMode ==
    [][IF config.auditAsync
       THEN /\ \A r \in Slots :
                Logged(r)
                => /\ pg' = pg
                   /\ queue' \in {queue, Append(queue, LogEntry(req[r]))}
            /\ pg'.rows # pg.rows
                => /\ drain.processing
                   /\ req' = req /\ queue' = queue
                   /\ Len(pg'.rows) = Len(pg.rows) + 1
                   /\ pg'.rows[Len(pg'.rows)].entry = Head(drain.batch)
       ELSE /\ queue = <<>> /\ queue' = <<>>
            /\ drain = NoBatch /\ drain' = NoBatch
            /\ ~ENABLED Drain
            /\ \A r \in Slots :
                Logged(r)
                => pg'.rows = IF env.dbUp /\ pg.open
                              THEN Append(pg.rows, [entry |-> LogEntry(req[r]),
                                                    retention_until |-> now + RetentionSeconds])
                              ELSE pg.rows
            /\ pg'.rows # pg.rows => \E r \in Slots : Logged(r)]_vars

C26_Witness ==
    /\ ~config.auditAsync
    /\ Len(pg.rows) = 2
    /\ pg.rows[2].entry.request_id = 2
    /\ proc.exit = 0

\* C27: flush returns only with the queue empty; every step that shortens
\* the queue is a _processQueue that takes at most batchSize entries off
\* its head as one batch; and, the inserts settling, a flush that has begun
\* returns.
C27_FlushDrains ==
    /\ [][(~Began(proc, "close") /\ Began(proc', "close"))
            => Len(queue) = 0 /\ Len(queue') = 0]_vars
    /\ [][queue' # queue /\ Len(queue') <= Len(queue)
            => /\ ~drain.processing /\ drain'.processing
               /\ Len(drain'.batch) \in 1..batchSize
               /\ queue = drain'.batch \o queue']_vars
    /\ (proc.pc \in {"flushBatch", "flushSleep"}) ~> Began(proc, "close")

C27_Witness ==
    /\ proc.pc = "flushSleep"
    /\ drain.by = "none"
    /\ Len(queue) = MaxLogged - batchSize
    /\ Len(pg.rows) = batchSize

\* request ids of the entries of a sequence
Ids(entries) == {entries[i].request_id : i \in 1..Len(entries)}

\* C28: a run of the drainer takes at most batchSize entries off the head
\* of the queue, and every entry taken is handed to the store: it is a row,
\* or its insert failed, or it is still in the batch. An insert that fails
\* leaves the rest of the batch in place and those inserts go on; the entry
\* that failed is never seen again in the queue, the batch or the table;
\* and when the batch is done the drainer runs again on the next tick.
C28_BatchSurvivesFailure ==
    /\ [][(~drain.processing /\ drain'.processing)
            => /\ Len(drain'.batch) \in 1..batchSize
               /\ queue = drain'.batch \o queue']_vars
    /\ [](/\ Ids(queue) \cup Ids(drain.batch) \cup {pg.rows[i].entry.request_id : i \in 1..Len(pg.rows)}
                \cup pg.failed = 1..Enqueued
           /\ Len(queue) + Len(drain.batch) + Len(pg.rows) + Cardinality(pg.failed) = Enqueued)
    /\ [][pg'.failed # pg.failed
            => /\ pg'.failed = pg.failed \cup {Head(drain.batch).request_id}
               /\ pg'.rows = pg.rows /\ queue' = queue
               /\ drain'.batch = Tail(drain.batch)
               /\ drain'.processing = (Len(drain.batch) > 1)]_vars
    /\ [](drain.processing => Len(drain.batch) > 0 /\ ENABLED Insert)
    /\ []((~drain.processing /\ Len(queue) > 0) => ENABLED Drain)

C28_Witness ==
    /\ pg.failed = {1}
    /\ drain = NoBatch
    /\ Len(pg.rows) = MaxLogged - 1
    /\ pg.rows[1].entry.request_id = 2

\* the decisions a request context holds
Decisions(q) == {q.globalCheck, q.ipCheck, q.rateLimit}

\* C29: when _checkBucket returns for a tier with count c, read at clock t:
\* a denial has allowed = false, limit = max, remaining = 0, reset =
\* windowStart + window and retryAfter = reset - t, which is between 1 and
\* window; an allowing decision has remaining = max - c >= 0 and no
\* retryAfter; and in every decision a request holds, the fail-open one
\* included, retryAfter is set exactly when the decision denies.
C29_DecisionFields ==
    /\ [][\A r \in Slots :
            LET q == req[r]
                limit == config.limits[q.tier]
                c == IF q.pc = "pipeline" THEN redis'[KeyOf(q)].n ELSE q.cnt
                d == IF req'[r].pc = "pipeline"
                     THEN IF q.tier = "global" THEN req'[r].globalCheck ELSE req'[r].ipCheck
                     ELSE req'[r].rateLimit
            IN  (q.pc \in {"pipeline", "expire"} /\ req'[r] # q
                    /\ req'[r].pc # "expire" /\ ~req'[r].storeErr)
                => /\ d.type = q.tier
                   /\ d.limit = limit.max
                   /\ d.allowed = (c <= limit.max)
                   /\ d.reset = (q.bnow - (q.bnow % limit.window)) + limit.window
                   /\ IF d.allowed
                      THEN /\ d.retryAfter = Null
                           /\ d.remaining = limit.max - c
                           /\ d.remaining >= 0
                      ELSE /\ d.remaining = 0
                           /\ d.retryAfter = d.reset - q.bnow
                           /\ d.retryAfter \in 1..limit.window]_vars
    /\ [](\A r \in Slots : \A d \in Decisions(req[r]) : (d.retryAfter # Null) = ~d.allowed)

C29_Witness ==
    \E r \in Slots :
        /\ Responded(r)
        /\ req[r].status = 429
        /\ req[r].rateLimit.type = "apikey"
        /\ req[r].rateLimit.remaining = 0
        /\ req[r].rateLimit.retryAfter = RateWindow - 1
        /\ req[r].ipCheck.allowed
        /\ req[r].ipCheck.remaining = 1

\* C30: when _checkBucket returns after store calls that all succeeded, the
\* bucket it incremented, if it still exists, has an expiry; and no bucket
\* exists at or after the end of its own window, windowStart + window.
C30_BucketsEndWithWindow ==
    /\ [][\A r \in Slots :
            (req[r].pc \in {"pipeline", "expire"} /\ req'[r] # req[r]
                /\ req'[r].pc # "expire" /\ ~req'[r].storeErr)
            => (redis'[KeyOf(req[r])] # Absent => redis'[KeyOf(req[r])].exp # NoExpiry)]_vars
    /\ [](\A k \in BucketKeys : redis[k] # Absent => now < WindowEnd(k))

\* C31: until the window of a bucket has ended, every check that reaches
\* the bucket (its INCR is executed) adds exactly one to its count, whether
\* the tier then allows or denies, and nothing else changes the count; so the count is the
\* number of checks made. A count above max stays above max, and every
\* check that finds it there, and whose store calls succeed, is denied by
\* that tier.
C31_DeniedChecksCount ==
    [][/\ \A r \in Slots :
            (req[r].pc \in {"pipeline", "expire"} /\ req'[r] # req[r]
                /\ now' < WindowEnd(KeyOf(req[r])))
            => LET k == KeyOf(req[r])
                   denied == /\ Responded(r)'
                             /\ req'[r].status = 429
                             /\ req'[r].rateLimit.type = k[1]
                             /\ ~req'[r].rateLimit.allowed
               IN  IF req[r].pc = "pipeline"
                   THEN ~(req'[r].storeErr /\ redis' = redis)
                        => /\ redis'[k].n = redis[k].n + 1
                           /\ redis[k].n >= MaxOf(k)
                              => \/ req'[r].pc = "expire" /\ req'[r].cnt > MaxOf(k)
                                 \/ req'[r].storeErr
                                 \/ denied
                   ELSE (req[r].cnt > MaxOf(k) /\ ~req'[r].storeErr) => denied
       /\ \A k \in BucketKeys :
            now' < WindowEnd(k)
            => /\ redis'[k].n # redis[k].n
                    => \E r \in Slots : /\ req[r].pc = "pipeline"
                                        /\ KeyOf(req[r]) = k
                                        /\ req'[r] # req[r]
               /\ redis[k].n > MaxOf(k) => redis'[k].n > MaxOf(k)]_vars

C31_Witness ==
    \E k \in BucketKeys :
        /\ now < WindowEnd(k)
        /\ redis[k].n = MaxOf(k) + 2
        /\ \E r \in Slots :
            /\ Responded(r)
            /\ req[r].status = 429
            /\ ~req[r].rateLimit.allowed
            /\ req[r].rateLimit.type = k[1]
            /\ req[r].rateLimit.reset = WindowEnd(k)

\* a reset or getStatus call returns in this step
Called(op) ==
    /\ ops'.op = op
    /\ req' = req /\ now' = now
    /\ ops' # ops \/ redis' # redis

C33_LatencyDefined ==
    /\ \A r \in Slots : Responded(r) => req[r].startTime \in 0..now
    /\ \A i \in 1..Len(queue) :
        /\ queue[i].response_time_ms # NaN
        /\ queue[i].response_time_ms >= 0

\* channels that are open for certain: the one the client holds and those
\* with a call in flight, unless closeClient was called on them
OpenChannels ==
    ({client.inst} \cup {req[s].sentOn : s \in {t \in Slots : req[t].pc = "attempt"}})
        \ client.closed

\* C34: the client object is replaced only by a reconnect that closes the
\* channel it replaces, and at no time is more than one analyzer channel
\* open, however the failures of concurrent requests interleave.
C34_OneChannel ==
    /\ [](Cardinality(OpenChannels) <= 1)
    /\ [][client'.inst # client.inst => client.inst \in client'.closed]_vars

\* C35: when every evaluated tier allows, the decision checkLimit returns,
\* shown in X-RateLimit-Limit and X-RateLimit-Remaining, is that of the most
\* restrictive evaluated tier: no evaluated tier has fewer requests
\* remaining than the one reported.
C35_MostRestrictiveReported ==
    \A r \in Slots :
        (Responded(r) /\ req[r].rateLimit.allowed /\ req[r].rateLimit.type \in Tiers)
        => /\ req[r].hdr.limit = req[r].rateLimit.limit
           /\ req[r].hdr.remaining = req[r].rateLimit.remaining
           /\ \A d \in Decisions(req[r]) :
                d.type \in Tiers => req[r].hdr.remaining <= d.remaining

\* request ids of the rows of audit_logs
RowIds == {pg.rows[i].entry.request_id : i \in 1..Len(pg.rows)}

\* request ids of the requests whose onResponse hooks have run
LoggedIds == (1..(nextId - 1)) \ {req[s].id : s \in InFlight}

\* C36: no audit entry is inserted more than once and at most one batch is
\* in flight, however the drainer's timer, flush and enqueue interleave: a
\* batch is taken off the queue only when none is being inserted, and every
\* logged entry is in exactly one place: in the queue, in the batch, in
\* audit_logs as one row, or lost through a logged insert failure.
C36_InsertedOnce ==
    /\ [](/\ Cardinality(RowIds) = Len(pg.rows)
          /\ Cardinality(Ids(queue)) = Len(queue)
          /\ Cardinality(Ids(drain.batch)) = Len(drain.batch)
          /\ Len(drain.batch) <= batchSize
          /\ drain.processing = (drain.batch # <<>>)
          /\ LoggedIds = Ids(queue) \cup Ids(drain.batch) \cup RowIds \cup pg.failed
          /\ Ids(queue) \cap (Ids(drain.batch) \cup RowIds \cup pg.failed) = {}
          /\ Ids(drain.batch) \cap (RowIds \cup pg.failed) = {}
          /\ RowIds \cap pg.failed = {})
    /\ [][(drain'.batch # drain.batch
                /\ (drain.batch = <<>> \/ drain'.batch # Tail(drain.batch)))
            => /\ ~drain.processing
               /\ drain'.batch = Batch(queue)
               /\ queue' = AfterSplice(queue)]_vars
    /\ [][\A i \in RowIds' \ RowIds :
            /\ drain.processing
            /\ Head(drain.batch).request_id = i
            /\ drain'.batch = Tail(drain.batch)
            /\ Len(pg'.rows) = Len(pg.rows) + 1]_vars

C36_Witness ==
    /\ Len(pg.rows) = batchSize
    /\ drain.processing
    /\ drain.by = "flush"
    /\ proc.pc = "flushBatch"

\* C37: when flush returns, no batch of audit entries is still being
\* inserted and the queue is empty: every entry enqueued before the call
\* has had its insert completed, those the periodic drainer took included.
C37_FlushWaitsForInserts ==
    [][(Began(proc', "flush") /\ ~Began(proc, "close") /\ Began(proc', "close"))
        => /\ Len(queue') = 0
           /\ ~drain'.processing]_vars

\* C38: the status of a response does not depend on the audit-logging
\* feature: with it on and with it off alike, a denied request is answered
\* 429, a body that is too large 413, a body that fails validation 400, a
\* request whose analysis threw or gave no verdict 503, an unsafe verdict
\* 403 and a safe verdict 501.
C38_StatusIgnoresAuditLogging ==
    \A r \in Slots :
        Responded(r)
        => req[r].status =
              IF ~req[r].rateLimit.allowed THEN 429
              ELSE IF "validate" \notin req[r].stages THEN 413
              ELSE IF "analyze" \notin req[r].stages THEN ValidationErrorStatus
              ELSE IF ~req[r].verdict.present THEN ServiceUnavailableErrorStatus
              ELSE IF ~req[r].verdict.is_safe THEN 403
              ELSE 501

\* C39: an attempt that fails with an error other than UNAVAILABLE,
\* DEADLINE_EXCEEDED and INVALID_ARGUMENT (here INTERNAL) is retried like a
\* transport error: after attempt a < maxRetries the call sleeps 2^a
\* seconds and then issues attempt a + 1, after attempt maxRetries it
\* throws; and the retry goes out on the client that was held before the
\* sleep ended, which is not replaced.
C39_OtherErrorsRetriedInPlace ==
    /\ [][\A r \in Slots :
            (req[r].pc = "attempt" /\ req'[r].lastError = "INTERNAL"
                /\ (req'[r].pc = "sleep" \/ req'[r].thrown # "none"))
            => IF req[r].attempt < config.maxRetries
               THEN /\ req'[r].pc = "sleep"
                    /\ req'[r].delay = (2 ^ req[r].attempt) * 1000
                    /\ req'[r].thrown = "none"
               ELSE /\ Responded(r)'
                    /\ req'[r].thrown = "INTERNAL"
                    /\ req'[r].status = 503]_vars
    /\ [][\A r \in Slots :
            (req[r].pc = "sleep" /\ req'[r].pc = "attempt" /\ req[r].lastError = "INTERNAL")
            => /\ client' = client
               /\ req'[r].sentOn = client.inst
               /\ req'[r].attempt = req[r].attempt + 1
               /\ req'[r].slept = req[r].slept + (2 ^ req[r].attempt) * 1000]_vars
    /\ [](\A r \in Slots : req[r].attempt <= config.maxRetries)

C39_Witness ==
    \E r \in Slots :
        /\ req[r].pc = "attempt"
        /\ req[r].lastError = "INTERNAL"
        /\ req[r].attempt = MaxClientRetries
        /\ req[r].slept = 7000
        /\ client = FirstClient

\* the global bucket of the first window
FirstGlobalBucket == redis[BucketKey("global", "all", 0)]

\* C40: a request denied by the per-caller or per-key tier has passed the
\* global tier, and its denial leaves every other bucket as it is: nothing
\* is rolled back. Counts fall only when a bucket expires, so within the
\* first window the global count is the number of requests whose global
\* check has run, those denied by a later tier included.
C40_DeniedChecksKeepGlobalCount ==
    /\ [](now < RateWindow
            => FirstGlobalBucket.n =
                  (nextId - 1) - Cardinality({r \in Slots : req[r].pc = "pipeline"
                                                              /\ req[r].tier = "global"}))
    /\ [][\A r \in Slots :
            (req[r].pc \in {"pipeline", "expire"} /\ req[r].tier \in {"ip", "apikey"}
                /\ Responded(r)' /\ req'[r].status = 429)
            => /\ req'[r].rateLimit.type = req[r].tier
               /\ req[r].globalCheck.type = "global"
               /\ req[r].globalCheck.allowed
               /\ \A k \in BucketKeys \ {KeyOf(req[r])} : redis'[k] = redis[k]
               /\ redis'[KeyOf(req[r])].n >= redis[KeyOf(req[r])].n]_vars
    /\ [][\A k \in BucketKeys :
            redis'[k].n < redis[k].n => (now' # now /\ redis'[k] = Absent)]_vars

C40_Witness ==
    /\ now < RateWindow
    /\ FirstGlobalBucket.n = MaxArrivals
    /\ \E r \in Slots :
        /\ Responded(r)
        /\ req[r].status = 429
        /\ req[r].rateLimit.type = "ip"
        /\ req[r].globalCheck.allowed
        /\ req[r].globalCheck.remaining = 0

====
